---- MODULE Spec2Model ----
(***************************************************************************)
(* Streaming relay of mastra-slack: streamToSlack in its two              *)
(* implementations, the HTTP-stream relay (lib/slack, reads the agent's   *)
(* SSE stream) and the direct-agent relay (mastra/slack, drives           *)
(* agent.stream()), together with the animation timer and the Slack       *)
(* message they both update.                                              *)
(*                                                                         *)
(* Representation of text.  A string is a sequence of pieces.  Tool ids   *)
(* and references are spelled character by character, because             *)
(* formatToolName works on characters; message texts are sequences of     *)
(* larger pieces, with every fixed literal of the source one piece.       *)
(* The empty sequence is the empty string; JavaScript's undefined is the  *)
(* same falsy value wherever the source only tests truthiness.            *)
(*                                                                         *)
(* Representation of the wire.  The HTTP body is a sequence of symbols:   *)
(* the marker "data: " is two symbols, a JSON object is one symbol that   *)
(* carries its fields followed by its closing brace, and "\n" is one      *)
(* symbol.  reader.read() may cut the body between any two symbols.       *)
(***************************************************************************)
EXTENDS Integers, Sequences, FiniteSets, TLC

VARIABLES
    impl,             \* "http" (lib/slack) or "direct" (mastra/slack)
    opts,             \* showWorkflowStatus, streamPartialText (http only)
    input,            \* what the transport will deliver in this invocation
    wire,             \* the part of input not yet read
    buffer,           \* http: trailing partial line kept between reads
    pc,               \* where streamToSlack is suspended
    messageTs,        \* handle of the created message, or NoTs
    accumulatedText,  \* accumulatedText / state.text
    workflowStep,     \* workflowStep / state: [status, toolName]
    loadingIndex,     \* loadingIndex / frame
    animationInterval,\* "unset", "on" or "cleared"
    toolIdMap,        \* toolIdMap / toolMap, from the side-channel fetch
    toolDescriptions, \* http: descriptions registered by step-start
    error,            \* the error caught by the catch block, or NoError
    calls,            \* history: every chat.postMessage / chat.update issued
    inflight,         \* indexes in calls of the requests not yet answered
    sinkText,         \* text the Slack message currently shows
    ticks,            \* history: number of timer callbacks run
    lineLog,          \* history: lines (http) or chunks (direct) processed
    statusHist,       \* history: the values the status has taken, in order
    outcome,          \* what the caller's await has received, or "pending"
    peer,             \* a second invocation running at the same time
    storage,          \* the Storage singleton and its file
    hook              \* the webhook route: requests handled, agent calls

vars == <<impl, opts, input, wire, buffer, pc, messageTs, accumulatedText,
          workflowStep, loadingIndex, animationInterval, toolIdMap,
          toolDescriptions, error, calls, inflight, sinkText, ticks,
          lineLog, statusHist, outcome, peer, storage, hook>>

(***************************************************************************)
(* Bounds                                                                  *)
(***************************************************************************)
MaxTicks == 2
\* timer callbacks of one invocation in AnimSpec, past the wrap of the spinner
MaxFrames == 11
\* timer callbacks of each of the two invocations in PairSpec
MaxPairTicks == 1
\* calls of saveInstallation and saveApp in StorageSpec
MaxSaves == 3
\* requests handled by the webhook route in HookSpec
MaxRequests == 1

(***************************************************************************)
(* Text helpers                                                            *)
(***************************************************************************)
Undefined == <<>>
NoTs == "none"
NoError == "none"

Last(s) == s[Len(s)]

\* a || b on strings
OrElse(a, b) == IF a # <<>> THEN a ELSE b

RECURSIVE Concat(_)
Concat(ss) == IF ss = <<>> THEN <<>> ELSE Head(ss) \o Concat(Tail(ss))

LowerCase == <<"a","b","c","d","e","f","g","h","i","j","k","l","m",
               "n","o","p","q","r","s","t","u","v","w","x","y","z">>
UpperCase == <<"A","B","C","D","E","F","G","H","I","J","K","L","M",
               "N","O","P","Q","R","S","T","U","V","W","X","Y","Z">>

toUpperCase(c) ==
    IF \E i \in 1..Len(LowerCase) : LowerCase[i] = c
    THEN UpperCase[CHOOSE i \in 1..Len(LowerCase) : LowerCase[i] = c]
    ELSE c

\* String.prototype.split on a set of one-character separators: always at
\* least one word, empty words kept.
RECURSIVE SplitOn(_, _)
SplitOn(s, seps) ==
    IF \A i \in 1..Len(s) : s[i] \notin seps
    THEN <<s>>
    ELSE LET i == CHOOSE j \in 1..Len(s) :
                      /\ s[j] \in seps
                      /\ \A k \in 1..(j-1) : s[k] \notin seps
         IN  <<SubSeq(s, 1, i-1)>> \o SplitOn(SubSeq(s, i+1, Len(s)), seps)

\* Array.prototype.join
RECURSIVE Join(_, _)
Join(words, sep) ==
    IF Len(words) = 0 THEN <<>>
    ELSE IF Len(words) = 1 THEN words[1]
    ELSE words[1] \o sep \o Join(Tail(words), sep)

\* word.charAt(0).toUpperCase() + word.slice(1)
Capitalize(word) ==
    IF word = <<>> THEN <<>> ELSE <<toUpperCase(word[1])>> \o Tail(word)

\* formatToolName, the same in both implementations
formatToolName(toolId) ==
    LET words == SplitOn(toolId, {"-", "_"})
    IN  Join([i \in 1..Len(words) |-> Capitalize(words[i])], <<" ">>)

(***************************************************************************)
(* Glyph tables and fixed texts                                            *)
(***************************************************************************)
LOADING_EMOJIS == <<"sp0","sp1","sp2","sp3","sp4","sp5","sp6","sp7","sp8","sp9">>
WORKFLOW_EMOJIS == <<"wf0","wf1","wf2","wf3">>

\* zero-based table lookup
At(table, i) == table[i + 1]

FallbackText == <<"Sorry, I couldn't generate a response.">>
HttpErrorText == <<"X Sorry, I encountered an error processing your request.">>

(***************************************************************************)
(* Wire symbols and JSON                                                   *)
(***************************************************************************)
\* The fields streamToSlack reads of a parsed object; a field that is
\* absent holds the empty value.  ptext is payload.text, ptool is
\* payload.toolName, tools is payload.request.body.tools.
NoObj == [type |-> "", ptext |-> <<>>, text |-> <<>>, content |-> <<>>,
          ptool |-> <<>>, tool_name |-> <<>>, toolName |-> <<>>,
          tools |-> <<>>]

Sym(c) == [s |-> c, o |-> NoObj]
Obj(o) == [s |-> "json", o |-> o]
NL == Sym("\n")
Marker == <<Sym("data:"), Sym(" ")>>
DoneData == <<Sym("[DONE]")>>

\* JSON.parse: the text of one object parses, anything else throws
JSONparse(data) ==
    IF /\ Len(data) = 2
       /\ data[1].s = "json"
       /\ data[2] = Sym("}")
    THEN [ok |-> TRUE, v |-> data[1].o]
    ELSE [ok |-> FALSE, v |-> NoObj]

startsWith(line, prefix) ==
    /\ Len(line) >= Len(prefix)
    /\ SubSeq(line, 1, Len(prefix)) = prefix

\* line.slice(6), the marker being "data: "
sliceMarker(line) == SubSeq(line, Len(Marker) + 1, Len(line))

(***************************************************************************)
(* Maps                                                                    *)
(***************************************************************************)
EmptyMap == [k \in {} |-> <<>>]
MapHas(m, k) == k \in DOMAIN m
MapSet(m, k, v) == [x \in (DOMAIN m) \cup {k} |-> IF x = k THEN v ELSE m[x]]

(***************************************************************************)
(* Tool name resolution                                                    *)
(***************************************************************************)
DefaultTool == <<"t","o","o","l">>

rawToolNameOf(parsed) ==
    OrElse(parsed.ptool, OrElse(parsed.tool_name, OrElse(parsed.toolName, DefaultTool)))

\* variant: the description is looked up before the pre-fetched id
DisplayNameDescriptionFirst(rawToolName, idMap, descs) ==
    IF MapHas(descs, rawToolName) THEN descs[rawToolName]
    ELSE IF MapHas(idMap, rawToolName) THEN formatToolName(idMap[rawToolName])
    ELSE rawToolName

\* variant: the raw name is formatted like a resolved id
DisplayNameFormatRaw(rawToolName, idMap, descs) ==
    IF MapHas(idMap, rawToolName) THEN formatToolName(idMap[rawToolName])
    ELSE IF MapHas(descs, rawToolName) THEN descs[rawToolName]
    ELSE formatToolName(rawToolName)

\* http: tool id from agent metadata > description from stream > raw name
DisplayNameHttp(rawToolName, idMap, descs) ==
    IF MapHas(idMap, rawToolName) THEN formatToolName(idMap[rawToolName])
    ELSE IF MapHas(descs, rawToolName) THEN descs[rawToolName]
    ELSE rawToolName

\* direct: formatToolName(toolMap.get(internalName) || internalName)
DisplayNameDirect(internalName, toolMap) ==
    formatToolName(
        IF MapHas(toolMap, internalName) /\ toolMap[internalName] # <<>>
        THEN toolMap[internalName]
        ELSE internalName)

(***************************************************************************)
(* The read loop's effect on the relay state                               *)
(*                                                                         *)
(* r is the part of the state one read changes: acc (accumulatedText),    *)
(* step (workflowStep), descs (toolDescriptions), and the histories hist  *)
(* (status values taken) and log (lines or chunks processed).             *)
(***************************************************************************)
Thinking == [status |-> "thinking", toolName |-> Undefined]

Became(hist, status) ==
    IF Last(hist) = status THEN hist ELSE Append(hist, status)

\* variant: the status is written, the tool name is not
SetStepStatusOnly(r, step) ==
    [r EXCEPT !.step = [status |-> step.status, toolName |-> @.toolName],
              !.hist = Became(r.hist, step.status)]

\* variant: a tool call that starts during a tool call keeps the first name
SetStepKeepsTool(r, step) ==
    [r EXCEPT !.step = IF @.status = "tool_call" /\ step.status = "tool_call"
                       THEN @ ELSE step,
              !.hist = Became(r.hist, step.status)]

SetStep(r, step) ==
    [r EXCEPT !.step = step, !.hist = Became(r.hist, step.status)]

\* step-start: toolDescriptions.set(tool.name, tool.description)
RECURSIVE RegisterTools(_, _)
RegisterTools(descs, tools) ==
    IF tools = <<>> THEN descs
    ELSE LET tool == Head(tools)
         IN  RegisterTools(
                 IF tool.name # <<>> /\ tool.description # <<>>
                 THEN MapSet(descs, tool.name, tool.description)
                 ELSE descs,
                 Tail(tools))

TextTypes == {"text-delta", "text", "content"}
\* variant: the "tool-call" spelling is not recognised
ToolStartTypesMissing == {"tool_call_start", "tool-call-start"}

ToolStartTypes == {"tool-call", "tool_call_start", "tool-call-start"}
\* variant: the "tool-call-end" spelling is not recognised
ToolEndTypesMissing == {"tool-result"}

\* variant: "step-finish" is taken for the end of a tool call
ToolEndTypesWide == {"tool-call-end", "tool-result", "step-finish"}

ToolEndTypes == {"tool-call-end", "tool-result"}

\* variant: the fields are tried in the opposite order
textChunkContentFirst(parsed) ==
    OrElse(parsed.content, OrElse(parsed.text, parsed.ptext))

\* parsed.payload?.text || parsed.text || parsed.content || ""
textChunkOf(parsed) ==
    OrElse(parsed.ptext, OrElse(parsed.text, parsed.content))

\* variant: the chunk is put in front of the text
AppendTextReversed(r, textChunk) ==
    IF textChunk # <<>>
    THEN SetStep([r EXCEPT !.acc = textChunk \o @],
                 [status |-> "responding", toolName |-> Undefined])
    ELSE r

\* variant: an empty chunk puts the status back to thinking
AppendTextResets(r, textChunk) ==
    IF textChunk # <<>>
    THEN SetStep([r EXCEPT !.acc = @ \o textChunk],
                 [status |-> "responding", toolName |-> Undefined])
    ELSE SetStep(r, Thinking)

\* variant: an empty chunk also moves the status to responding
AppendTextAlways(r, textChunk) ==
    SetStep([r EXCEPT !.acc = @ \o textChunk],
            [status |-> "responding", toolName |-> Undefined])

\* http: if (textChunk) { accumulatedText += textChunk; workflowStep = ... }
AppendTextHttp(r, textChunk) ==
    IF textChunk # <<>>
    THEN SetStep([r EXCEPT !.acc = @ \o textChunk],
                 [status |-> "responding", toolName |-> Undefined])
    ELSE r

\* variant: a step-start renames the tool call that is being displayed
ApplyParsedRenames(r, parsed, idMap) ==
    LET r1 == IF parsed.type = "step-start"
              THEN [r EXCEPT !.descs = RegisterTools(@, parsed.tools)]
              ELSE r
    IN  IF parsed.type = "step-start" /\ r.step.status = "tool_call"
             /\ parsed.tools # <<>>
        THEN SetStep(r1, [status |-> "tool_call",
                          toolName |-> parsed.tools[1].description])
        ELSE IF parsed.type \in ToolStartTypes
        THEN SetStep(r1, [status |-> "tool_call",
                          toolName |-> DisplayNameHttp(rawToolNameOf(parsed),
                                                       idMap, r1.descs)])
        ELSE IF parsed.type \in ToolEndTypes
        THEN SetStep(r1, [status |-> "responding", toolName |-> Undefined])
        ELSE IF parsed.type \in TextTypes
        THEN AppendTextHttp(r1, textChunkOf(parsed))
        ELSE r1

\* http: the body of the try block for one parsed object
ApplyParsedHttp(r, parsed, idMap) ==
    LET r1 == IF parsed.type = "step-start"
              THEN [r EXCEPT !.descs = RegisterTools(@, parsed.tools)]
              ELSE r
    IN  IF parsed.type \in ToolStartTypes
        THEN SetStep(r1, [status |-> "tool_call",
                          toolName |-> DisplayNameHttp(rawToolNameOf(parsed),
                                                       idMap, r1.descs)])
        ELSE IF parsed.type \in ToolEndTypes
        THEN SetStep(r1, [status |-> "responding", toolName |-> Undefined])
        ELSE IF parsed.type \in TextTypes
        THEN AppendTextHttp(r1, textChunkOf(parsed))
        ELSE r1

\* variant: a payload that does not parse is taken as plain text
ProcessLineRawText(r, line, idMap) ==
    LET logged == [r EXCEPT !.log = Append(@, line)]
    IN  IF ~startsWith(line, Marker) THEN logged
        ELSE LET data == sliceMarker(line)
                 p == JSONparse(data)
             IN  IF data = DoneData THEN logged
                 ELSE IF ~p.ok THEN AppendTextHttp(logged, <<"raw">>)
                 ELSE ApplyParsedHttp(logged, p.v, idMap)

\* http: the body of "for (const line of lines)"
ProcessLineHttp(r, line, idMap) ==
    LET logged == [r EXCEPT !.log = Append(@, line)]
    IN  IF ~startsWith(line, Marker) THEN logged
        ELSE LET data == sliceMarker(line)
                 p == JSONparse(data)
             IN  IF data = DoneData THEN logged
                 ELSE IF ~p.ok THEN logged
                 ELSE ApplyParsedHttp(logged, p.v, idMap)

RECURSIVE ProcessLinesHttp(_, _, _)
ProcessLinesHttp(r, lines, idMap) ==
    IF lines = <<>> THEN r
    ELSE ProcessLinesHttp(ProcessLineHttp(r, Head(lines), idMap), Tail(lines), idMap)

splitLines(text) == SplitOn(text, {NL})

\* variant: the trailing partial line is not kept
DecodeDropPartial(buf, chunk) ==
    LET lines == splitLines(buf \o chunk)
    IN  [lines |-> SubSeq(lines, 1, Len(lines) - 1), buffer |-> <<>>]

\* http: buffer += chunk; lines = buffer.split("\n"); buffer = lines.pop() || ""
DecodeChunk(buf, chunk) ==
    LET lines == splitLines(buf \o chunk)
    IN  [lines |-> SubSeq(lines, 1, Len(lines) - 1), buffer |-> Last(lines)]

\* variant: the direct relay drops the tool name when it leaves tool_call
ProcessChunkDirectClears(r, item, toolMap) ==
    LET logged == [r EXCEPT !.log = Append(@, item)]
    IN  IF item.s = "onChunk"
        THEN IF item.o.type = "tool-call"
             THEN SetStep(logged,
                          [status |-> "tool_call",
                           toolName |-> DisplayNameDirect(
                                            OrElse(item.o.ptool, DefaultTool), toolMap)])
             ELSE IF item.o.type = "tool-result"
             THEN SetStep(logged, [status |-> "responding", toolName |-> Undefined])
             ELSE logged
        ELSE IF item.o.ptext # <<>>
             THEN SetStep([logged EXCEPT !.acc = @ \o item.o.ptext],
                          [status |-> "responding", toolName |-> Undefined])
             ELSE logged

\* direct: one onChunk callback, or one iteration over result.textStream
ProcessChunkDirect(r, item, toolMap) ==
    LET logged == [r EXCEPT !.log = Append(@, item)]
        keep == logged.step.toolName
    IN  IF item.s = "onChunk"
        THEN IF item.o.type = "tool-call"
             THEN SetStep(logged,
                          [status |-> "tool_call",
                           toolName |-> DisplayNameDirect(
                                            OrElse(item.o.ptool, DefaultTool), toolMap)])
             ELSE IF item.o.type = "tool-result"
             THEN SetStep(logged, [status |-> "responding", toolName |-> keep])
             ELSE logged
        ELSE IF item.o.ptext # <<>>
             THEN SetStep([logged EXCEPT !.acc = @ \o item.o.ptext],
                          [status |-> "responding", toolName |-> keep])
             ELSE logged

(***************************************************************************)
(* The side-channel tool lookup                                            *)
(***************************************************************************)
Digits == <<"0","1","2","3","4","5","6","7","8","9">>
Ordinal(i) == <<"_", Digits[i + 1]>>

\* http fetchAgentTools: `_${key}` -> tool.id || tool.name, when truthy;
\* the empty map on a network error, a non-OK answer or a missing tools object
RECURSIVE fetchAgentToolsFrom(_, _)
fetchAgentToolsFrom(tools, map) ==
    IF tools = <<>> THEN map
    ELSE LET tool == Head(tools)
             toolId == OrElse(tool.id, tool.name)
         IN  fetchAgentToolsFrom(
                 Tail(tools),
                 IF toolId # <<>> THEN MapSet(map, <<"_">> \o tool.key, toolId) ELSE map)

fetchAgentTools(resp) ==
    IF resp.ok THEN fetchAgentToolsFrom(resp.tools, EmptyMap) ELSE EmptyMap

\* direct buildToolMap: `_${index}` -> tool.id || tool.name || key;
\* the empty map when the agent is missing or getTools throws
buildToolMap(resp) ==
    IF resp.ok
    THEN [k \in {Ordinal(i - 1) : i \in 1..Len(resp.tools)} |->
             LET i == CHOOSE j \in 1..Len(resp.tools) : Ordinal(j - 1) = k
                 tool == resp.tools[i]
             IN  OrElse(tool.id, OrElse(tool.name, tool.key))]
    ELSE EmptyMap

(***************************************************************************)
(* Rendering                                                               *)
(***************************************************************************)
ToolNameText(toolName) == IF toolName = Undefined THEN <<"undefined">> ELSE toolName

\* variant: the partial text is shown whatever streamPartialText says
displayTextPartialAlways(o, step, acc, index) ==
    LET spinner == At(LOADING_EMOJIS, index)
        partial == <<spinner, " ">> \o acc \o <<"...">>
    IN  IF step.status = "thinking" THEN <<spinner, " Thinking...">>
        ELSE IF step.status = "tool_call"
        THEN <<At(WORKFLOW_EMOJIS, index % Len(WORKFLOW_EMOJIS)), " Calling tool: ">>
                 \o ToolNameText(step.toolName) \o <<"...">>
        ELSE IF acc # <<>> THEN partial
        ELSE <<spinner, " Responding...">>

\* http updateSlackMessage: displayText
displayTextHttp(o, step, acc, index) ==
    LET spinner == At(LOADING_EMOJIS, index)
        partial == <<spinner, " ">> \o acc \o <<"...">>
    IN  IF o.showWorkflowStatus
        THEN IF step.status = "thinking" THEN <<spinner, " Thinking...">>
             ELSE IF step.status = "tool_call"
             THEN <<At(WORKFLOW_EMOJIS, index % Len(WORKFLOW_EMOJIS)), " Calling tool: ">>
                      \o ToolNameText(step.toolName) \o <<"...">>
             ELSE IF step.status = "responding"
             THEN IF o.streamPartialText /\ acc # <<>>
                  THEN partial
                  ELSE <<spinner, " Responding...">>
             ELSE <<>>
        ELSE IF o.streamPartialText /\ acc # <<>>
             THEN partial
             ELSE <<spinner, " Thinking...">>

\* direct getStatusText
getStatusText(step, frame) ==
    LET spinner == At(LOADING_EMOJIS, frame % Len(LOADING_EMOJIS))
        toolIcon == At(WORKFLOW_EMOJIS, frame % Len(WORKFLOW_EMOJIS))
    IN  IF step.status = "thinking" THEN <<spinner, " Thinking...">>
        ELSE IF step.status = "tool_call"
        THEN <<toolIcon, " Using ">> \o ToolNameText(step.toolName) \o <<"...">>
        ELSE <<spinner, " Responding...">>

\* variant: the final text is rendered like a partial text
FinalTextSpinner(acc) ==
    IF acc # <<>> THEN <<At(LOADING_EMOJIS, 0), " ">> \o acc \o <<"...">>
    ELSE FallbackText

\* both: accumulatedText, or the fallback when it is empty
FinalText(acc) == IF acc # <<>> THEN acc ELSE FallbackText

\* variant: the text gathered so far is shown on failure
ErrorTextPartial(i, e, acc) == IF acc # <<>> THEN acc ELSE HttpErrorText

\* http: a fixed notice; direct: `Error: ${errorMessage}`
ErrorText(i, e, acc) ==
    IF i = "http" THEN HttpErrorText ELSE <<"X Error: ", e>>

(***************************************************************************)
(* Inputs                                                                  *)
(***************************************************************************)
ReverseTextId == <<"r","e","v","e","r","s","e","-","t","e","x","t">>
Ref0 == Ordinal(0)
Desc0 == <<"Reverses the given text">>

TextDelta(t) == [NoObj EXCEPT !.type = "text-delta", !.ptext = t]
ToolCallStart(ref) == [NoObj EXCEPT !.type = "tool-call", !.ptool = ref]
ToolCallEnd == [NoObj EXCEPT !.type = "tool-call-end"]
ToolResult == [NoObj EXCEPT !.type = "tool-result"]
StepStart(ref, d) ==
    [NoObj EXCEPT !.type = "step-start",
                  !.tools = <<[name |-> ref, description |-> d]>>]

\* one frame of the HTTP body: data: {...}\n
DataLine(o) == Marker \o <<Obj(o), Sym("}"), NL>>

\* Scenario A and Scenario B of the relay's contract
HttpScenarioA ==
    Concat(<<DataLine(TextDelta(<<"Hel">>)), DataLine(TextDelta(<<"lo w">>)),
             DataLine(TextDelta(<<"orld">>))>>)
HttpScenarioB ==
    Concat(<<DataLine(ToolCallStart(Ref0)), DataLine(ToolCallEnd),
             DataLine(TextDelta(<<"Done">>))>>)

\* lines that carry no event: invalid JSON, the sentinel, an unhandled type
MalformedLine == Marker \o <<Sym("{not valid json"), NL>>
SentinelLine == Marker \o DoneData \o <<NL>>
UnknownEvent == [NoObj EXCEPT !.type = "step-finish"]

\* two text deltas with event-less lines and a tool call between them
HttpNoisy ==
    Concat(<<DataLine(TextDelta(<<"a">>)), MalformedLine,
             DataLine(ToolCallStart(Ref0)), SentinelLine,
             DataLine(UnknownEvent), DataLine(TextDelta(<<"b">>))>>)

\* two tool calls in a row, then a text delta with an empty payload
HttpRepeated ==
    Concat(<<DataLine(ToolCallStart(Ref0)), DataLine(ToolCallStart(ReverseTextId)),
             DataLine(TextDelta(<<>>)), DataLine(TextDelta(<<"a">>))>>)

\* text events that carry the text under several field names
TextFields(p, t, c) ==
    [NoObj EXCEPT !.type = "text", !.ptext = p, !.text = t, !.content = c]
HttpFields ==
    Concat(<<DataLine(TextFields(<<>>, <<>>, <<"c1">>)),
             DataLine(TextFields(<<>>, <<"t2">>, <<"c2">>)),
             DataLine(TextFields(<<"p3">>, <<"t3">>, <<"c3">>))>>)

\* a description registered between two calls of the same tool
HttpLateDescription ==
    Concat(<<DataLine(ToolCallStart(Ref0)), DataLine(StepStart(Ref0, Desc0)),
             DataLine(ToolCallStart(Ref0))>>)

\* the last frame is not terminated by a newline
HttpUnterminated ==
    DataLine(TextDelta(<<"a">>)) \o Marker \o <<Obj(TextDelta(<<"b">>)), Sym("}")>>

\* a blank line and a comment line between two frames
HttpBlankLines ==
    Concat(<<DataLine(ToolCallStart(Ref0)), <<NL>>, <<Sym(": ping"), NL>>,
             DataLine(TextDelta(<<"a">>))>>)

HttpInputs ==
    { <<>>, HttpScenarioA, HttpScenarioB, HttpNoisy, HttpRepeated,
      HttpBlankLines, HttpFields, HttpLateDescription, HttpUnterminated,
      Concat(<<DataLine(StepStart(Ref0, Desc0)), DataLine(ToolCallStart(Ref0)),
               DataLine(TextDelta(<<"a">>))>>),
      Concat(<<DataLine(ToolCallStart(ReverseTextId)), DataLine(TextDelta(<<"a">>))>>) }

\* what the direct relay receives: onChunk callbacks and textStream chunks
OnChunk(o) == [s |-> "onChunk", o |-> o]
TextChunk(t) == [s |-> "text", o |-> [NoObj EXCEPT !.ptext = t]]

DirectInputs ==
    { <<>>,
      <<TextChunk(<<"Hel">>), TextChunk(<<"lo w">>), TextChunk(<<"orld">>)>>,
      <<OnChunk(ToolCallStart(Ref0)), OnChunk(ToolResult), TextChunk(<<"Done">>)>>,
      <<OnChunk(ToolCallStart(ReverseTextId)), TextChunk(<<"a">>)>>,
      <<TextChunk(<<"a">>), OnChunk(UnknownEvent), OnChunk(ToolCallStart(Ref0)),
        TextChunk(<<"b">>)>>,
      <<OnChunk(ToolCallStart(Ref0)), OnChunk(ToolCallStart(ReverseTextId)),
        TextChunk(<<>>), OnChunk(ToolResult), TextChunk(<<"a">>)>>,
      <<OnChunk(ToolCallStart(<<>>)), TextChunk(<<"a">>)>> }

\* answers of the agent lookup: failed, without a tools object, or the
\* agent's declared tools
AgentResponses ==
    { [ok |-> FALSE, tools |-> <<>>],
      [ok |-> TRUE, tools |-> <<>>],
      [ok |-> TRUE,
       tools |-> <<[key |-> <<"0">>, id |-> ReverseTextId, name |-> <<>>]>>] }

Options == [showWorkflowStatus : BOOLEAN, streamPartialText : BOOLEAN]
DefaultOptions == [showWorkflowStatus |-> TRUE, streamPartialText |-> FALSE]

\* the invocations of the HTTP relay: every input under the default options,
\* and the two scenarios under every setting of the options
HttpInvocations ==
    ({DefaultOptions} \X HttpInputs) \cup (Options \X {HttpScenarioA, HttpScenarioB})

TransportErrors == {"socket hang up"}
Handles == {"ts1"}

\* the Storage object before any file exists: empty maps (a Map is the
\* sequence of its values in insertion order); lastSaved is history: the
\* installation most recently passed to saveInstallation for each team, and
\* saves the number of save calls made
NoFile == [apps |-> <<>>, installations |-> <<>>, exists |-> FALSE]
NoStorage ==
    [apps |-> <<>>, installations |-> <<>>, byTeam |-> EmptyMap,
     file |-> NoFile, lastSaved |-> EmptyMap, saves |-> 0]

\* the webhook route before any request; afterwards: the request handled
\* last, the status it was answered with, whether verifySlackRequest was
\* called for it and whether sendToAgent was called for it
NoRequest ==
    [type |-> "none", signature |-> "none", timestamp |-> "none",
     team_id |-> "none", event |-> "none"]
NoHook ==
    [n |-> 0, request |-> NoRequest, status |-> 0, verified |-> FALSE,
     agent |-> FALSE]

\* the second invocation before its Slack event arrives: every local of
\* streamToSlack at its declared initial value, nothing sent
NoPeer ==
    [pc |-> "absent", impl |-> "http", wire |-> <<>>, ts |-> NoTs,
     acc |-> <<>>, step |-> Thinking, descs |-> EmptyMap, idMap |-> EmptyMap,
     hist |-> <<"thinking">>, frame |-> 0, ticks |-> 0, log |-> <<>>,
     calls |-> <<>>]

(***************************************************************************)
(* State machine                                                           *)
(***************************************************************************)
Init ==
    /\ \/ /\ impl = "http"
          /\ \E inv \in HttpInvocations : opts = inv[1] /\ input = inv[2]
       \/ impl = "direct" /\ opts = DefaultOptions /\ input \in DirectInputs
    /\ wire = input
    /\ buffer = <<>>
    /\ pc = "start"
    /\ messageTs = NoTs
    /\ accumulatedText = <<>>
    /\ workflowStep = Thinking
    /\ loadingIndex = 0
    /\ animationInterval = "unset"
    /\ toolIdMap = EmptyMap
    /\ toolDescriptions = EmptyMap
    /\ error = NoError
    /\ calls = <<>>
    /\ inflight = {}
    /\ sinkText = <<>>
    /\ ticks = 0
    /\ lineLog = <<>>
    /\ statusHist = <<"thinking">>
    /\ outcome = "pending"
    /\ peer = NoPeer
    /\ storage = NoStorage
    /\ hook = NoHook

\* variant: the handle is not passed on to the call
CallNoHandle(kind, ts, text) == [kind |-> kind, ts |-> NoTs, text |-> text]

Call(kind, ts, text) == [kind |-> kind, ts |-> ts, text |-> text]

\* variant: a rejected error write replaces the error that is rethrown
RethrownWriteError(caught, writeError) ==
    IF writeError # NoError THEN writeError ELSE caught

\* "throw error" at the end of the catch block: the caller receives what was
\* caught; writeError is the rejection of the error write, already swallowed
Rethrown(caught, writeError) == caught

\* the requests still awaited once the initial chat.postMessage is answered
CreateAnswered == {i \in inflight : calls[i].kind # "create"}

\* variant: the timer is left running
NotCleared == animationInterval

\* clearInterval(animationInterval), when it was set
Cleared == IF animationInterval = "on" THEN "cleared" ELSE animationInterval

\* variant: the error update is issued also when there is no handle
CatchUpdatesAnyway(e) ==
    /\ error' = e
    /\ animationInterval' = Cleared
    /\ statusHist' = Became(statusHist, "errored")
    /\ calls' = Append(calls, Call("error", messageTs,
                                   ErrorText(impl, e, accumulatedText)))
    /\ inflight' = CreateAnswered \cup {Len(calls) + 1}
    /\ pc' = "errUpdate"
    /\ outcome' = outcome

\* the catch block: stop the animation, write the error text to the message
\* (or, direct only, post it as a new message), then rethrow
Catch(e) ==
    /\ error' = e
    /\ animationInterval' = Cleared
    /\ statusHist' = Became(statusHist, "errored")
    /\ IF messageTs # NoTs
       THEN /\ calls' = Append(calls, Call("error", messageTs,
                                           ErrorText(impl, e, accumulatedText)))
            /\ inflight' = inflight \cup {Len(calls) + 1}
            /\ pc' = "errUpdate"
       ELSE IF impl = "direct"
       THEN /\ calls' = Append(calls, Call("errorPost", NoTs,
                                           ErrorText(impl, e, accumulatedText)))
            /\ inflight' = CreateAnswered \cup {Len(calls) + 1}
            /\ pc' = "errUpdate"
       ELSE /\ calls' = calls
            /\ inflight' = CreateAnswered
            /\ pc' = "raised"
    /\ outcome' = IF messageTs # NoTs \/ impl = "direct" THEN outcome
                  ELSE Rethrown(e, NoError)

InitialText ==
    IF impl = "http" THEN <<At(LOADING_EMOJIS, 0), " Thinking...">>
    ELSE getStatusText(workflowStep, 0)

\* variant: the lookup may be run again once the message was requested
FetchToolsRepeats ==
    /\ pc = "start"
    /\ \E resp \in AgentResponses :
           toolIdMap' = IF impl = "http" THEN fetchAgentTools(resp)
                        ELSE buildToolMap(resp)
    /\ calls' = Append(calls, Call("create", NoTs, InitialText))
    /\ inflight' = inflight \cup {Len(calls) + 1}
    /\ pc' \in {"post", IF calls = <<>> THEN "start" ELSE "post"}
    /\ UNCHANGED <<outcome, impl, opts, input, wire, buffer, messageTs,
                   accumulatedText, workflowStep, loadingIndex,
                   animationInterval, toolDescriptions, error, sinkText, ticks,
                   lineLog, statusHist>>
    /\ UNCHANGED <<peer, storage, hook>>

\* variant: a failed lookup is not caught and ends the invocation
FetchToolsThrows ==
    /\ pc = "start"
    /\ \E resp \in AgentResponses :
        /\ toolIdMap' = IF impl = "http" THEN fetchAgentTools(resp)
                        ELSE buildToolMap(resp)
        /\ IF resp.ok
           THEN /\ calls' = Append(calls, Call("create", NoTs, InitialText))
                /\ inflight' = inflight \cup {Len(calls) + 1}
                /\ pc' = "post"
                /\ UNCHANGED <<error, outcome>>
           ELSE /\ error' = "lookup failed"
                /\ outcome' = "lookup failed"
                /\ pc' = "raised"
                /\ UNCHANGED <<calls, inflight>>
    /\ UNCHANGED <<impl, opts, input, wire, buffer, messageTs,
                   accumulatedText, workflowStep, loadingIndex,
                   animationInterval, toolDescriptions, sinkText, ticks,
                   lineLog, statusHist>>
    /\ UNCHANGED <<peer, storage, hook>>

\* await fetchAgentTools(agentName) / await buildToolMap(mastra, agentName),
\* whatever it answers; then the initial chat.postMessage is issued
FetchTools ==
    /\ pc = "start"
    /\ \E resp \in AgentResponses :
           toolIdMap' = IF impl = "http" THEN fetchAgentTools(resp)
                        ELSE buildToolMap(resp)
    /\ calls' = Append(calls, Call("create", NoTs, InitialText))
    /\ inflight' = inflight \cup {Len(calls) + 1}
    /\ pc' = "post"
    /\ UNCHANGED <<outcome, impl, opts, input, wire, buffer, messageTs,
                   accumulatedText, workflowStep, loadingIndex,
                   animationInterval, toolDescriptions, error, sinkText, ticks,
                   lineLog, statusHist>>
    /\ UNCHANGED <<peer, storage, hook>>

\* chat.postMessage answered; then setInterval, and the stream is requested
\* (direct: after mastra.getAgent, which may find no agent)
PostInitialOk ==
    /\ pc = "post"
    /\ \E ts \in Handles, found \in BOOLEAN :
        /\ found \/ (impl = "direct" /\ toolIdMap = EmptyMap)
        /\ messageTs' = ts
        /\ sinkText' = InitialText
        /\ IF found
           THEN /\ animationInterval' = "on"
                /\ inflight' = CreateAnswered
                /\ pc' = "connect"
                /\ UNCHANGED <<error, calls, statusHist>>
           ELSE /\ error' = "Agent not found"
                /\ animationInterval' = "cleared"
                /\ statusHist' = Became(statusHist, "errored")
                /\ calls' = Append(calls,
                       Call("error", ts, ErrorText(impl, "Agent not found",
                                                   accumulatedText)))
                /\ inflight' = CreateAnswered \cup {Len(calls) + 1}
                /\ pc' = "errUpdate"
    /\ UNCHANGED <<outcome, impl, opts, input, wire, buffer, accumulatedText,
                   workflowStep, loadingIndex, toolIdMap, toolDescriptions,
                   ticks, lineLog>>
    /\ UNCHANGED <<peer, storage, hook>>

\* chat.postMessage rejected: the catch block runs with no messageTs
PostInitialFail ==
    /\ pc = "post"
    /\ Catch("post failed")
    /\ UNCHANGED <<impl, opts, input, wire, buffer, messageTs, accumulatedText,
                   workflowStep, loadingIndex, toolIdMap, toolDescriptions,
                   sinkText, ticks, lineLog>>
    /\ UNCHANGED <<peer, storage, hook>>

\* await fetch(.../stream) with an OK answer and a body / await agent.stream
ConnectOk ==
    /\ pc = "connect"
    /\ pc' = "read"
    /\ UNCHANGED <<outcome, impl, opts, input, wire, buffer, messageTs, accumulatedText,
                   workflowStep, loadingIndex, animationInterval, toolIdMap,
                   toolDescriptions, error, calls, inflight, sinkText, ticks,
                   lineLog, statusHist>>
    /\ UNCHANGED <<peer, storage, hook>>

ConnectErrors == {"fetch failed", "Failed to stream", "No reader available"}

\* variant: the failure leaves the relay without passing the catch block
ConnectFailUnhandled ==
    /\ pc = "connect"
    /\ \E e \in ConnectErrors :
        /\ impl = "direct" => e = "fetch failed"
        /\ error' = e
        /\ outcome' = e
    /\ pc' = "raised"
    /\ UNCHANGED <<impl, opts, input, wire, buffer, messageTs, accumulatedText,
                   workflowStep, loadingIndex, toolIdMap, toolDescriptions,
                   sinkText, ticks, lineLog, animationInterval, statusHist,
                   calls, inflight>>
    /\ UNCHANGED <<peer, storage, hook>>

\* fetch rejects, answers non-OK or has no body / agent.stream rejects
ConnectFail ==
    /\ pc = "connect"
    /\ \E e \in ConnectErrors :
        /\ impl = "direct" => e = "fetch failed"
        /\ Catch(e)
    /\ UNCHANGED <<impl, opts, input, wire, buffer, messageTs, accumulatedText,
                   workflowStep, loadingIndex, toolIdMap, toolDescriptions,
                   sinkText, ticks, lineLog>>
    /\ UNCHANGED <<peer, storage, hook>>

Relay == [acc |-> accumulatedText, step |-> workflowStep,
          descs |-> toolDescriptions, hist |-> statusHist, log |-> lineLog]

\* http: one reader.read() that returns a chunk, and the lines it completes
ReadChunkHttp(k) ==
    LET chunk == SubSeq(wire, 1, k)
        d == DecodeChunk(buffer, chunk)
        r == ProcessLinesHttp(Relay, d.lines, toolIdMap)
    IN  /\ wire' = SubSeq(wire, k + 1, Len(wire))
        /\ buffer' = d.buffer
        /\ accumulatedText' = r.acc
        /\ workflowStep' = r.step
        /\ toolDescriptions' = r.descs
        /\ statusHist' = r.hist
        /\ lineLog' = r.log

\* direct: one onChunk callback or one textStream chunk
ReadChunkDirect ==
    LET r == ProcessChunkDirect(Relay, Head(wire), toolIdMap)
    IN  /\ wire' = Tail(wire)
        /\ accumulatedText' = r.acc
        /\ workflowStep' = r.step
        /\ statusHist' = r.hist
        /\ lineLog' = r.log
        /\ UNCHANGED <<buffer, toolDescriptions>>

Read ==
    /\ pc = "read"
    /\ wire # <<>>
    /\ IF impl = "http"
       THEN \E k \in 1..Len(wire) : ReadChunkHttp(k)
       ELSE ReadChunkDirect
    /\ UNCHANGED <<outcome, impl, opts, input, pc, messageTs, loadingIndex,
                   animationInterval, toolIdMap, error, calls, inflight,
                   sinkText, ticks>>
    /\ UNCHANGED <<peer, storage, hook>>

\* variant: what is left in the buffer is processed as a last line
StreamEndFlushes ==
    /\ pc = "read"
    /\ wire = <<>>
    /\ LET r == IF impl = "http" /\ buffer # <<>>
                THEN ProcessLineHttp(Relay, buffer, toolIdMap)
                ELSE Relay
       IN  /\ accumulatedText' = r.acc
           /\ workflowStep' = r.step
           /\ toolDescriptions' = r.descs
           /\ lineLog' = r.log
           /\ statusHist' = Became(r.hist, "done")
           /\ calls' = Append(calls, Call("final", messageTs, FinalText(r.acc)))
    /\ buffer' = <<>>
    /\ animationInterval' = Cleared
    /\ inflight' = inflight \cup {Len(calls) + 1}
    /\ pc' = "final"
    /\ UNCHANGED <<outcome, impl, opts, input, wire, messageTs, loadingIndex,
                   toolIdMap, error, sinkText, ticks, peer>>
    /\ UNCHANGED <<storage, hook>>

\* variant: the sentinel line ends the relay like the end of the stream
StreamEndAtSentinel ==
    /\ pc = "read"
    /\ \/ wire = <<>>
       \/ lineLog # <<>> /\ Last(lineLog) \o <<NL>> = SentinelLine
    /\ animationInterval' = Cleared
    /\ calls' = Append(calls, Call("final", messageTs, FinalText(accumulatedText)))
    /\ inflight' = inflight \cup {Len(calls) + 1}
    /\ statusHist' = Became(statusHist, "done")
    /\ pc' = "final"
    /\ UNCHANGED <<outcome, impl, opts, input, wire, buffer, messageTs,
                   accumulatedText, workflowStep, loadingIndex, toolIdMap,
                   toolDescriptions, error, sinkText, ticks, lineLog>>
    /\ UNCHANGED <<peer, storage, hook>>

\* the transport reports the end: clearInterval, then the final chat.update
StreamEnd ==
    /\ pc = "read"
    /\ wire = <<>>
    /\ animationInterval' = Cleared
    /\ calls' = Append(calls, Call("final", messageTs, FinalText(accumulatedText)))
    /\ inflight' = inflight \cup {Len(calls) + 1}
    /\ statusHist' = Became(statusHist, "done")
    /\ pc' = "final"
    /\ UNCHANGED <<outcome, impl, opts, input, wire, buffer, messageTs, accumulatedText,
                   workflowStep, loadingIndex, toolIdMap, toolDescriptions,
                   error, sinkText, ticks, lineLog>>
    /\ UNCHANGED <<peer, storage, hook>>

\* reader.read() rejects / the textStream iteration throws
StreamFail ==
    /\ pc = "read"
    /\ \E e \in TransportErrors : Catch(e)
    /\ UNCHANGED <<impl, opts, input, wire, buffer, messageTs, accumulatedText,
                   workflowStep, loadingIndex, toolIdMap, toolDescriptions,
                   sinkText, ticks, lineLog>>
    /\ UNCHANGED <<peer, storage, hook>>

\* variant: the counter advances by two
NextFrameSkips(i, index) ==
    IF i = "http" THEN (index + 2) % Len(LOADING_EMOJIS) ELSE index + 2

\* http: loadingIndex = (loadingIndex + 1) % LOADING_EMOJIS.length;
\* direct: frame++
NextFrame(i, index) ==
    IF i = "http" THEN (index + 1) % Len(LOADING_EMOJIS) ELSE index + 1

\* variant: the animation gives up after five callbacks
TickTimesOut(bound) ==
    /\ animationInterval = "on"
    /\ ticks < bound /\ ticks < 5
    /\ ticks' = ticks + 1
    /\ loadingIndex' = NextFrame(impl, loadingIndex)
    /\ LET text == IF impl = "http"
                   THEN displayTextHttp(opts, workflowStep, accumulatedText,
                                        loadingIndex')
                   ELSE getStatusText(workflowStep, loadingIndex')
       IN  IF messageTs # NoTs /\ text # <<>>
           THEN /\ calls' = Append(calls, Call("tick", messageTs, text))
                /\ inflight' = inflight \cup {Len(calls) + 1}
           ELSE UNCHANGED <<calls, inflight>>
    /\ UNCHANGED <<outcome, impl, opts, input, wire, buffer, pc, messageTs,
                   accumulatedText, workflowStep, animationInterval, toolIdMap,
                   toolDescriptions, error, sinkText, lineLog, statusHist>>
    /\ UNCHANGED <<peer, storage, hook>>

\* the setInterval callback: advance the frame, issue one chat.update
TickWithin(bound) ==
    /\ animationInterval = "on"
    /\ ticks < bound
    /\ ticks' = ticks + 1
    /\ loadingIndex' = NextFrame(impl, loadingIndex)
    /\ LET text == IF impl = "http"
                   THEN displayTextHttp(opts, workflowStep, accumulatedText,
                                        loadingIndex')
                   ELSE getStatusText(workflowStep, loadingIndex')
       IN  IF messageTs # NoTs /\ text # <<>>
           THEN /\ calls' = Append(calls, Call("tick", messageTs, text))
                /\ inflight' = inflight \cup {Len(calls) + 1}
           ELSE UNCHANGED <<calls, inflight>>
    /\ UNCHANGED <<outcome, impl, opts, input, wire, buffer, pc, messageTs,
                   accumulatedText, workflowStep, animationInterval, toolIdMap,
                   toolDescriptions, error, sinkText, lineLog, statusHist>>
    /\ UNCHANGED <<peer, storage, hook>>

Applied(i, ok) == IF ok /\ calls[i].ts = messageTs THEN calls[i].text ELSE sinkText

Tick == TickWithin(MaxTicks)

\* Slack answers a status update of the animation; a rejection is swallowed
TickAnswered ==
    /\ \E i \in inflight, ok \in BOOLEAN :
        /\ calls[i].kind = "tick"
        /\ sinkText' = Applied(i, ok)
        /\ inflight' = inflight \ {i}
    /\ UNCHANGED <<outcome, impl, opts, input, wire, buffer, pc, messageTs,
                   accumulatedText, workflowStep, loadingIndex,
                   animationInterval, toolIdMap, toolDescriptions, error,
                   calls, ticks, lineLog, statusHist>>
    /\ UNCHANGED <<peer, storage, hook>>

\* Slack answers the final update: return, or enter the catch block
FinalAnswered ==
    /\ pc = "final"
    /\ \E i \in inflight, ok \in BOOLEAN :
        /\ calls[i].kind = "final"
        /\ sinkText' = Applied(i, ok)
        /\ IF ok
           THEN /\ pc' = "returned"
                /\ outcome' = "returned"
                /\ inflight' = inflight \ {i}
                /\ UNCHANGED <<animationInterval, error, calls, statusHist>>
           ELSE /\ error' = "update failed"
                /\ animationInterval' = Cleared
                /\ statusHist' = Became(statusHist, "errored")
                /\ calls' = Append(calls, Call("error", messageTs,
                                ErrorText(impl, "update failed", accumulatedText)))
                /\ inflight' = (inflight \ {i}) \cup {Len(calls) + 1}
                /\ pc' = "errUpdate"
                /\ UNCHANGED outcome
    /\ UNCHANGED <<impl, opts, input, wire, buffer, messageTs, accumulatedText,
                   workflowStep, loadingIndex, toolIdMap, toolDescriptions,
                   ticks, lineLog>>
    /\ UNCHANGED <<peer, storage, hook>>

\* Slack answers the error write of the catch block (a rejection is
\* swallowed); the caught error is rethrown
ErrorAnswered ==
    /\ pc = "errUpdate"
    /\ \E i \in inflight, ok \in BOOLEAN :
        /\ calls[i].kind \in {"error", "errorPost"}
        /\ sinkText' = IF calls[i].kind = "error" THEN Applied(i, ok) ELSE sinkText
        /\ inflight' = inflight \ {i}
        /\ outcome' = Rethrown(error, IF ok THEN NoError ELSE "update failed")
    /\ pc' = "raised"
    /\ UNCHANGED <<impl, opts, input, wire, buffer, messageTs, accumulatedText,
                   workflowStep, loadingIndex, animationInterval, toolIdMap,
                   toolDescriptions, error, calls, ticks, lineLog, statusHist>>
    /\ UNCHANGED <<peer, storage, hook>>

Next ==
    \/ FetchTools
    \/ PostInitialOk
    \/ PostInitialFail
    \/ ConnectOk
    \/ ConnectFail
    \/ Read
    \/ StreamEnd
    \/ StreamFail
    \/ Tick
    \/ TickAnswered
    \/ FinalAnswered
    \/ ErrorAnswered

Spec == Init /\ [][Next]_vars

\* The animation over many timer callbacks: one stream with a tool call per
\* relay, under the default options, each update answered before the next
\* callback runs.
AnimInit ==
    /\ Init
    /\ opts = DefaultOptions
    /\ input \in {Concat(<<DataLine(ToolCallStart(ReverseTextId)),
                              DataLine(TextDelta(<<"a">>))>>),
                  <<OnChunk(ToolCallStart(<<>>)), TextChunk(<<"a">>)>>}

AnimTick == inflight = {} /\ TickWithin(MaxFrames)

AnimNext ==
    \/ FetchTools
    \/ PostInitialOk
    \/ PostInitialFail
    \/ ConnectOk
    \/ ConnectFail
    \/ Read
    \/ StreamEnd
    \/ StreamFail
    \/ AnimTick
    \/ TickAnswered
    \/ FinalAnswered
    \/ ErrorAnswered

AnimSpec == AnimInit /\ [][AnimNext]_vars

\* The steps that resume streamToSlack where it awaits the transport or
\* Slack.  An await resumes once its promise settles: the request of the
\* stream is answered, a read delivers a chunk, the end or a failure, and
\* every awaited chat.update is answered.
Resume ==
    \/ ConnectOk
    \/ ConnectFail
    \/ StreamFail
    \/ StreamEnd
    \/ Read
    \/ FinalAnswered
    \/ ErrorAnswered

\* the invocations of FairSpec: the default options, with
\* the empty stream and Scenarios A and B (http) and every
\* stream of the direct relay
LiveInit ==
    /\ Init
    /\ opts = DefaultOptions
    /\ input \in {<<>>, HttpScenarioA, HttpScenarioB} \cup DirectInputs

\* the relay under a fair event loop, with a transport and a Slack client
\* that settle every awaited promise
FairSpec == LiveInit /\ [][Next]_vars /\ WF_vars(Resume)

(***************************************************************************)
(* Properties                                                              *)
(***************************************************************************)
Finished == pc \in {"returned", "raised"}
TerminalKinds == {"final", "error"}
UpdateKinds == {"tick", "final", "error"}
TerminalCalls == {i \in 1..Len(calls) : calls[i].kind \in TerminalKinds}
FinalCalls == {i \in 1..Len(calls) : calls[i].kind = "final"}
ErrorCalls == {i \in 1..Len(calls) : calls[i].kind = "error"}

\* C1: for every relay invocation whose initial message was created, however
\* the stream ends and whatever the update calls answer, exactly one terminal
\* update (final text, fallback text or error notice) is issued: never more
\* than one, and one once the relay has returned or raised.
C1_ExactlyOneTerminalUpdate ==
    messageTs # NoTs =>
        /\ Cardinality(TerminalCalls) <= 1
        /\ Finished => Cardinality(TerminalCalls) = 1

\* C2: once the terminal update has been issued, no further update of the
\* message (animation tick or otherwise) is issued by the invocation.
C2_NoUpdateAfterTerminal ==
    \A i, j \in 1..Len(calls) :
        (i < j /\ calls[i].kind \in TerminalKinds) => calls[j].kind \notin UpdateKinds

\* C3: the terminal write is the last update the message observes: once the
\* final update has been answered and the relay has returned, the message
\* shows the final text, also when a tick's update was in flight at the end.
C3_TerminalWriteIsLast ==
    pc = "returned" => \A i \in FinalCalls : sinkText = calls[i].text

\* What a processed line or chunk is, read off the history
EventOf(line) ==
    IF impl = "direct" THEN line.o
    ELSE IF startsWith(line, Marker) /\ JSONparse(sliceMarker(line)).ok
    THEN JSONparse(sliceMarker(line)).v
    ELSE NoObj

IsTextDelta(line) ==
    IF impl = "direct" THEN line.s = "text"
    ELSE EventOf(line).type \in {"text-delta", "text", "content"}

IsToolStart(line) ==
    IF impl = "direct" THEN line.s = "onChunk" /\ line.o.type = "tool-call"
    ELSE EventOf(line).type \in {"tool-call", "tool_call_start", "tool-call-start"}

RefOf(line) ==
    IF impl = "direct" THEN OrElse(line.o.ptool, DefaultTool)
    ELSE rawToolNameOf(EventOf(line))

ToolStarts == {i \in 1..Len(lineLog) : IsToolStart(lineLog[i])}
LastToolStart == CHOOSE i \in ToolStarts : \A j \in ToolStarts : j <= i
LastRef == RefOf(lineLog[LastToolStart])

\* C4: accumulatedText is the concatenation, in arrival order, of the text
\* payloads of the text-delta events processed so far; no other line, tool
\* event or tick adds, removes or reorders anything.
C4_TextIsConcatenationOfDeltas ==
    accumulatedText =
        Concat([i \in 1..Len(lineLog) |->
                   IF IsTextDelta(lineLog[i])
                   THEN textChunkOf(EventOf(lineLog[i]))
                   ELSE <<>>])

C4_Witness ==
    /\ impl = "http"
    /\ accumulatedText = <<"a", "b">>
    /\ \E i \in 1..Len(lineLog) : lineLog[i] \o <<NL>> = MalformedLine
    /\ \E i \in 1..Len(lineLog) : lineLog[i] \o <<NL>> = SentinelLine
    /\ ToolStarts # {}
    /\ ticks > 0

Consumed == SubSeq(input, 1, Len(input) - Len(wire))
InitialRelay == [acc |-> <<>>, step |-> Thinking, descs |-> EmptyMap,
                 hist |-> <<"thinking">>, log |-> <<>>]
NonTerminalHist == SelectSeq(statusHist, LAMBDA x : x \notin {"done", "errored"})

\* C5: however the body was cut into chunks, the lines decoded, the text,
\* the status, the tool name and the registered descriptions are those of
\* feeding the part read so far as one chunk, and the buffer holds exactly
\* the trailing partial line: a frame cut by a chunk boundary is decoded
\* once, when its newline arrives.
C5_ChunkingDoesNotMatter ==
    (impl = "http" /\ pc \notin {"start", "post"}) =>
        LET d == [lines |-> SubSeq(SplitOn(Consumed, {NL}), 1,
                                   Len(SplitOn(Consumed, {NL})) - 1),
                  rest |-> Last(SplitOn(Consumed, {NL}))]
            r == ProcessLinesHttp(InitialRelay, d.lines, toolIdMap)
        IN  /\ buffer = d.rest
            /\ lineLog = d.lines
            /\ accumulatedText = r.acc
            /\ workflowStep = r.step
            /\ toolDescriptions = r.descs
            /\ NonTerminalHist = r.hist

C5_Witness ==
    /\ impl = "http"
    /\ pc = "read"
    /\ buffer # <<>>
    /\ Last(buffer).s = "json"
    /\ accumulatedText # <<>>
    /\ wire # <<>>

Range(seq) == {seq[i] : i \in 1..Len(seq)}

C7_PrefetchedIdWins ==
    (impl = "http" /\ workflowStep.status = "tool_call"
       /\ MapHas(toolIdMap, LastRef) /\ MapHas(toolDescriptions, LastRef)) =>
        /\ workflowStep.toolName = formatToolName(toolIdMap[LastRef])
        /\ workflowStep.toolName # toolDescriptions[LastRef]

C7_Witness ==
    /\ impl = "http"
    /\ workflowStep.status = "tool_call"
    /\ MapHas(toolIdMap, LastRef)
    /\ MapHas(toolDescriptions, LastRef)
    /\ LastToolStart > 1

NeitherKnown == ~MapHas(toolIdMap, LastRef) /\ ~MapHas(toolDescriptions, LastRef)

TitleCased(ref) ==
    LET words == SplitOn(ref, {"-", "_"})
    IN  Join([i \in 1..Len(words) |->
                 IF words[i] = <<>> THEN <<>>
                 ELSE <<toUpperCase(words[i][1])>> \o Tail(words[i])], <<" ">>)

\* C8 as stated: with neither a pre-fetched id nor a description, the
\* active tool name is the raw reference with separators replaced by spaces
\* and every word title-cased, in both relays.
C8_RawReferenceFormattedInBoth ==
    (workflowStep.status = "tool_call" /\ NeitherKnown) =>
        workflowStep.toolName = TitleCased(LastRef)

\* C8 amended: with neither a pre-fetched id nor a description, the direct
\* relay shows the raw reference title-cased with separators replaced by
\* spaces, and the http relay shows the raw reference unchanged.
C8_RawReferenceFallback ==
    (workflowStep.status = "tool_call" /\ NeitherKnown) =>
        workflowStep.toolName = IF impl = "direct" THEN TitleCased(LastRef)
                                ELSE LastRef

C8_Witness ==
    /\ impl = "http"
    /\ workflowStep.status = "tool_call"
    /\ NeitherKnown
    /\ LastRef = ReverseTextId
    /\ workflowStep.toolName = ReverseTextId

Glyphs == Range(LOADING_EMOJIS) \cup Range(WORKFLOW_EMOJIS)

\* C9: on normal completion the animation is stopped before the final
\* update, no tick follows it, and it carries accumulatedText when that is
\* non-empty and the fixed fallback otherwise, never a spinner text.
C9_FinalUpdateText ==
    \A i \in FinalCalls :
        /\ animationInterval = "cleared"
        /\ \A j \in (i+1)..Len(calls) : calls[j].kind # "tick"
        /\ accumulatedText # <<>> => calls[i].text = accumulatedText
        /\ accumulatedText = <<>> =>
               calls[i].text = <<"Sorry, I couldn't generate a response.">>
        /\ calls[i].text[1] \notin Glyphs

C9_Witness ==
    /\ pc = "returned"
    /\ accumulatedText # <<>>
    /\ sinkText = accumulatedText
    /\ \E i \in 1..Len(calls) : calls[i].kind = "tick"

\* the failures of the inbound stream: of the request and of a read
TransportFailures == TransportErrors \cup ConnectErrors

\* C10 as stated: in both relays the error write carries one fixed notice,
\* the same whatever the error and whatever text was accumulated, and the
\* animation is stopped.
C10_FixedNoticeInBoth ==
    \A i \in ErrorCalls :
        error \in TransportFailures =>
            /\ animationInterval # "on"
            /\ \A e \in TransportFailures : calls[i].text = ErrorText(impl, e, <<>>)

\* C10 amended: on a failure after the message was created the animation is
\* stopped and the error write never carries the accumulated text; the http
\* relay writes one fixed notice whatever the error, the direct relay writes
\* "Error: " followed by the message of the error.
C10_ErrorNotice ==
    \A i \in ErrorCalls :
        /\ animationInterval # "on"
        /\ calls[i].text = IF impl = "http"
                           THEN <<"X Sorry, I encountered an error processing your request.">>
                           ELSE <<"X Error: ", error>>
        /\ Range(accumulatedText) \cap Range(calls[i].text) = {}

C10_Witness ==
    /\ impl = "direct"
    /\ pc = "raised"
    /\ accumulatedText # <<>>
    /\ error \in TransportErrors
    /\ sinkText = <<"X Error: ", error>>

\* C11: on a transport failure the caller receives that failure, and only
\* after the error write was answered; a rejected error write is swallowed
\* and the caller still receives the transport failure.
C11_TransportFailureReachesCaller ==
    error \in TransportFailures =>
        /\ outcome \in {"pending", error}
        /\ pc = "raised" => outcome = error
        /\ outcome # "pending" =>
               /\ ErrorCalls # {}
               /\ ErrorCalls \cap inflight = {}

\* the read failed, the error write was rejected, the caller got the failure
C11_Witness ==
    /\ error \in TransportErrors
    /\ outcome = error
    /\ accumulatedText # <<>>
    /\ ErrorCalls # {}
    /\ \A i \in ErrorCalls : sinkText # calls[i].text

\* C12: a rejected update of the message, of the animation or the terminal
\* one, never aborts the relay and never reaches the caller: once the
\* transport has ended normally the relay does not enter the error path and
\* the caller gets a normal return.
C12_UpdateFailureAbsorbed ==
    "done" \in Range(statusHist) =>
        /\ error = NoError
        /\ pc \in {"final", "returned"}
        /\ outcome \in {"pending", "returned"}

\* the lines (http) or chunks (direct) of the whole input, and its text
InputLines ==
    IF impl = "direct" THEN input
    ELSE SubSeq(splitLines(input), 1, Len(splitLines(input)) - 1)
InputText ==
    Concat([i \in 1..Len(InputLines) |->
               IF IsTextDelta(InputLines[i])
               THEN textChunkOf(EventOf(InputLines[i]))
               ELSE <<>>])
SinkOrTransportFailures == {"post failed", "update failed"} \cup TransportFailures

\* C13 as stated: when the tool lookup failed (no agent, network error,
\* non-OK answer, no tools object) the relay is not aborted: it goes on with
\* an empty map, creates the message and streams, so that any error it
\* meets is a failure of Slack or of the transport, and its final text is
\* the text of the stream.
C13_LookupFailureNeverAborts ==
    (pc # "start" /\ toolIdMap = EmptyMap) =>
        /\ calls # <<>> /\ calls[1].kind = "create"
        /\ error \in {NoError} \cup SinkOrTransportFailures
        /\ \A i \in FinalCalls : calls[i].text = FinalText(InputText)

\* C13 amended: the tool lookup never raises: whatever it answers the
\* relay creates the message next, and the final text is the text of the
\* stream whatever the map holds.  A reachable agent then streams, with
\* only Slack or transport failures possible; in the direct relay a missing
\* agent, which left the map empty, fails with "Agent not found" after the
\* message was created and before anything is read.
C13_LookupFailureAbsorbed ==
    /\ pc # "start" => calls # <<>> /\ calls[1].kind = "create"
    /\ pc = "post" => error = NoError /\ outcome = "pending"
    /\ \A i \in FinalCalls : calls[i].text = FinalText(InputText)
    /\ error \in {NoError, "Agent not found"} \cup SinkOrTransportFailures
    /\ error = "Agent not found" =>
           /\ impl = "direct"
           /\ toolIdMap = EmptyMap
           /\ messageTs # NoTs
           /\ lineLog = <<>>

\* the lookup failed, a tool call was shown under its raw reference, and the
\* message ends on the text of the stream
C13_Witness ==
    /\ toolIdMap = EmptyMap
    /\ pc = "returned"
    /\ ToolStarts # {}
    /\ LastRef = Ref0
    /\ InputText # <<>>
    /\ sinkText = InputText

\* a marker line whose payload is neither the sentinel nor valid JSON
IsMalformed(line) ==
    /\ startsWith(line, Marker)
    /\ sliceMarker(line) # DoneData
    /\ ~JSONparse(sliceMarker(line)).ok
CompleteLines(body) == SubSeq(splitLines(body), 1, Len(splitLines(body)) - 1)

\* C14: a marker line with invalid JSON yields no event and changes neither
\* the status, the text nor the tool name: the relay state is the one the
\* other lines alone produce; decoding goes on (every complete line read is
\* processed) and the relay is not put on the error path by it.
C14_MalformedLineIgnored ==
    (impl = "http" /\ pc \notin {"start", "post"}) =>
        LET valid == SelectSeq(lineLog, LAMBDA l : ~IsMalformed(l))
            r == ProcessLinesHttp(InitialRelay, valid, toolIdMap)
        IN  /\ lineLog = CompleteLines(Consumed)
            /\ accumulatedText = r.acc
            /\ workflowStep = r.step
            /\ toolDescriptions = r.descs
            /\ NonTerminalHist = r.hist
            /\ error \in {NoError} \cup SinkOrTransportFailures

\* Scenario C: invalid JSON between two valid text deltas, both in the text
C14_Witness ==
    /\ impl = "http"
    /\ pc = "returned"
    /\ \E i \in 1..Len(lineLog) :
           /\ IsMalformed(lineLog[i])
           /\ \E j \in 1..(i-1) : IsTextDelta(lineLog[j])
           /\ \E j \in (i+1)..Len(lineLog) : IsTextDelta(lineLog[j])
    /\ accumulatedText = <<"a", "b">>
    /\ sinkText = accumulatedText

IsSentinel(line) == startsWith(line, Marker) /\ sliceMarker(line) = DoneData
SentinelSeen == \E i \in 1..Len(lineLog) : IsSentinel(lineLog[i])

\* C15: the sentinel line "[DONE]" yields no event (the relay state is the
\* one the other lines alone produce) and does not end the relay: with the
\* sentinel processed and more of the body to come the relay is still
\* reading with no terminal write issued, what follows the sentinel is
\* decoded and applied, and a terminal write is issued only when the
\* transport has ended or failed.
C15_SentinelDoesNotTerminate ==
    (impl = "http" /\ pc \notin {"start", "post"}) =>
        LET others == SelectSeq(lineLog, LAMBDA l : ~IsSentinel(l))
            r == ProcessLinesHttp(InitialRelay, others, toolIdMap)
        IN  /\ lineLog = CompleteLines(Consumed)
            /\ accumulatedText = r.acc
            /\ workflowStep = r.step
            /\ toolDescriptions = r.descs
            /\ NonTerminalHist = r.hist
            /\ (SentinelSeen /\ wire # <<>> /\ error = NoError) =>
                   pc = "read" /\ TerminalCalls = {}
            /\ FinalCalls # {} => wire = <<>>
            /\ TerminalCalls # {} => wire = <<>> \/ error # NoError

\* a text delta that arrived after the sentinel is in the final text
C15_Witness ==
    /\ impl = "http"
    /\ pc = "returned"
    /\ \E i \in 1..Len(lineLog) :
           /\ IsSentinel(lineLog[i])
           /\ \E j \in (i+1)..Len(lineLog) :
                  /\ IsTextDelta(lineLog[j])
                  /\ textChunkOf(EventOf(lineLog[j])) = <<"b">>
    /\ Last(accumulatedText) = "b"
    /\ sinkText = accumulatedText

\* the chat.postMessage calls and the chat.update calls of the invocation
CreateCalls == {i \in 1..Len(calls) : calls[i].kind \in {"create", "errorPost"}}
UpdateCalls == {i \in 1..Len(calls) : calls[i].kind \in UpdateKinds}
CreateFirst ==
    /\ pc = "start" => calls = <<>>
    /\ pc # "start" => calls[1].kind = "create"
    /\ pc \in {"start", "post"} => animationInterval = "unset" /\ ticks = 0
    /\ \A i \in UpdateCalls :
           /\ i > 1
           /\ messageTs \in Handles
           /\ calls[i].ts = messageTs

\* C16 as stated: exactly one create call per invocation, issued first,
\* before the animation is started and before any update; every update
\* targets the handle that create returned.
C16_ExactlyOneCreate ==
    /\ CreateFirst
    /\ pc # "start" => CreateCalls = {1}

\* C16 amended: the first call of an invocation is its create call, issued
\* before the animation is started and before any update, and every update
\* targets the handle it returned.  It is the only create call, except
\* that the direct relay, when that create was rejected, posts the error
\* text with a second create call (and then issues no update at all).
C16_CreateFirstAndHandle ==
    /\ CreateFirst
    /\ pc # "start" =>
           IF impl = "direct" /\ error = "post failed"
           THEN /\ CreateCalls = {1, 2}
                /\ calls[2].kind = "errorPost"
                /\ UpdateCalls = {}
                /\ messageTs = NoTs
           ELSE CreateCalls = {1}

\* ticks and the final update all went to the created message
C16_Witness ==
    /\ pc = "returned"
    /\ messageTs \in Handles
    /\ Cardinality(UpdateCalls) = MaxTicks + 1
    /\ \A i \in UpdateCalls : calls[i].ts = messageTs
    /\ CreateCalls = {1}

\* the animation is stopped, a terminal update was issued and answered,
\* and the caller has its return or its error
Terminated ==
    /\ Finished
    /\ outcome # "pending"
    /\ animationInterval = "cleared"
    /\ TerminalCalls # {}
    /\ TerminalCalls \cap inflight = {}

\* C17: under fair scheduling, with a transport that eventually ends or
\* fails, a relay that has requested the stream eventually stops the
\* animation, issues its terminal update and returns or raises: it does
\* not stay forever on a spinner.
C17_EventuallyTerminates == (pc \in {"connect", "read"}) ~> Terminated

\* the relay terminated after ticks of the animation
C17_Witness ==
    /\ Terminated
    /\ ticks = MaxTicks
    /\ lineLog # <<>>

Front(seq) == SubSeq(seq, 1, Len(seq) - 1)

\* the relay state after the given lines or chunks, from the initial state
RECURSIVE Replay(_)
Replay(lines) ==
    IF lines = <<>> THEN InitialRelay
    ELSE IF impl = "http"
    THEN ProcessLineHttp(Replay(Front(lines)), Last(lines), toolIdMap)
    ELSE ProcessChunkDirect(Replay(Front(lines)), Last(lines), toolIdMap)

LastIsTextDelta == lineLog # <<>> /\ IsTextDelta(Last(lineLog))
LastChunk == textChunkOf(EventOf(Last(lineLog)))

\* C18 as stated: after every text-delta event, the one with an empty
\* payload included, the payload is appended to the text and the status is
\* Responding.
C18_EveryTextDeltaResponds ==
    LastIsTextDelta =>
        /\ accumulatedText = Replay(Front(lineLog)).acc \o LastChunk
        /\ workflowStep.status = "responding"

\* C18 amended: after a text-delta event with a non-empty payload the
\* payload is appended to the text and the status is Responding; a
\* text-delta with an empty payload changes neither the text, the status
\* nor the tool name.
C18_NonEmptyTextDeltaResponds ==
    LastIsTextDelta =>
        LET before == Replay(Front(lineLog))
        IN  IF LastChunk # <<>>
            THEN /\ accumulatedText = before.acc \o LastChunk
                 /\ workflowStep.status = "responding"
            ELSE /\ accumulatedText = before.acc
                 /\ workflowStep = before.step
                 /\ NonTerminalHist = before.hist

\* an empty text delta arrived during a tool call and left it displayed
C18_Witness ==
    /\ LastIsTextDelta
    /\ LastChunk = <<>>
    /\ workflowStep.status = "tool_call"
    /\ pc = "read"
    /\ ticks > 0

\* the name the resolution order gives a reference: the pre-fetched id
\* title-cased, else (http) the registered description, else the reference,
\* title-cased in the direct relay
ResolvedName(ref) ==
    IF MapHas(toolIdMap, ref) THEN TitleCased(toolIdMap[ref])
    ELSE IF impl = "direct" THEN TitleCased(ref)
    ELSE IF MapHas(toolDescriptions, ref) THEN toolDescriptions[ref]
    ELSE ref

LastIsToolStart == lineLog # <<>> /\ IsToolStart(Last(lineLog))

\* C19: after every tool-call-start event, whatever the status was
\* (Thinking, ToolCall or Responding), the status is ToolCall and the
\* active tool name is the name resolved for that event's reference; a
\* tool call that follows another replaces its name.
C19_ToolCallStartEffect ==
    LastIsToolStart =>
        /\ workflowStep.status = "tool_call"
        /\ workflowStep.toolName = ResolvedName(LastRef)

\* a second tool call started during the first and replaced its name
C19_Witness ==
    /\ LastIsToolStart
    /\ Len(lineLog) = 2
    /\ IsToolStart(lineLog[1])
    /\ RefOf(lineLog[1]) # LastRef
    /\ Replay(Front(lineLog)).step.status = "tool_call"
    /\ workflowStep.toolName # Replay(Front(lineLog)).step.toolName
    /\ workflowStep.toolName = ResolvedName(LastRef)

IsToolEnd(line) ==
    IF impl = "direct" THEN line.s = "onChunk" /\ line.o.type = "tool-result"
    ELSE EventOf(line).type \in {"tool-call-end", "tool-result"}
LastIsToolEnd == lineLog # <<>> /\ IsToolEnd(Last(lineLog))

\* C20 as stated: after a tool-call-end event the status is Responding and
\* the tool name set by the preceding tool-call-start is still in the
\* relay state; it is cleared at the next transition of the status.
C20_ToolNameRetainedUntilNextTransition ==
    /\ (LastIsToolEnd /\ ToolStarts # {}) =>
           /\ workflowStep.status = "responding"
           /\ workflowStep.toolName = ResolvedName(LastRef)
    /\ (lineLog # <<>> /\ ~IsToolEnd(Last(lineLog))
           /\ workflowStep.status = "responding") =>
           workflowStep.toolName = Undefined

\* C20 amended: after a tool-call-end event the status is Responding.  The
\* http relay clears the tool name at that event: it holds a tool name only
\* while the status is ToolCall.  The direct relay never clears it: once a
\* tool call has started, the state holds the name of the latest one,
\* through tool-call-end and every later text delta.
C20_ToolCallEndEffect ==
    /\ LastIsToolEnd => workflowStep.status = "responding"
    /\ (impl = "http" /\ workflowStep.status # "tool_call") =>
           workflowStep.toolName = Undefined
    /\ impl = "direct" =>
           workflowStep.toolName = IF ToolStarts = {} THEN Undefined
                                   ELSE ResolvedName(LastRef)

\* direct relay: the name outlived the tool-call-end and a text delta
C20_Witness ==
    /\ impl = "direct"
    /\ ToolStarts # {}
    /\ \E i \in 1..Len(lineLog) : IsToolEnd(lineLog[i]) /\ i > LastToolStart
    /\ LastIsTextDelta
    /\ accumulatedText # <<>>
    /\ workflowStep.status = "responding"
    /\ workflowStep.toolName = ResolvedName(LastRef)

\* C21 as stated: in both relays the tool name is set whenever the status
\* is ToolCall and absent whenever the status has moved away from it.
C21_ToolNameOnlyInToolCall ==
    /\ workflowStep.status = "tool_call" => workflowStep.toolName # Undefined
    /\ workflowStep.status # "tool_call" => workflowStep.toolName = Undefined

\* C21 amended: in both relays the tool name is set whenever the status is
\* ToolCall.  In the http relay it is absent in every other status.  In
\* the direct relay it is absent only until the first tool call: afterwards
\* the state keeps the name of the latest tool call in every status.
C21_ToolNameSetInToolCall ==
    /\ workflowStep.status = "tool_call" => workflowStep.toolName # Undefined
    /\ (impl = "http" /\ workflowStep.status # "tool_call") =>
           workflowStep.toolName = Undefined
    /\ (impl = "direct" /\ workflowStep.status # "tool_call") =>
           IF ToolStarts = {} THEN workflowStep.toolName = Undefined
           ELSE workflowStep.toolName = TitleCased(
                    IF MapHas(toolIdMap, LastRef) THEN toolIdMap[LastRef] ELSE LastRef)

\* direct relay: a tool call without a name is shown as "Tool", and the
\* name is still in the state after the text moved the status on
C21_Witness ==
    /\ impl = "direct"
    /\ ToolStarts # {}
    /\ LastRef = DefaultTool
    /\ workflowStep.status = "responding"
    /\ workflowStep.toolName = <<"T", "o", "o", "l">>

TerminalStatuses == {"done", "errored"}

\* C22: once the invocation is at its terminal point (Done: the stream
\* ended; Errored: a failure was caught) nothing changes the status, the
\* text or the tool name any more: a terminal status is the last one the
\* invocation takes, and the text of the final update is still the text of
\* the relay state.
C22_NoTransitionAfterTerminal ==
    /\ \A i \in 1..(Len(statusHist) - 1) : statusHist[i] \notin TerminalStatuses
    /\ \A i \in FinalCalls : calls[i].text = FinalText(accumulatedText)
    /\ Last(statusHist) \in TerminalStatuses =>
           /\ workflowStep = Replay(lineLog).step
           /\ accumulatedText = Replay(lineLog).acc

\* a step of the animation timer, and the update it issued
TickStep == ticks' = ticks + 1
TickIssued(text) ==
    /\ Len(calls') = Len(calls) + 1
    /\ Last(calls') = [kind |-> "tick", ts |-> messageTs, text |-> text]
SpinnerNow == At(LOADING_EMOJIS, loadingIndex' % Len(LOADING_EMOJIS))
RespondingLabel == <<SpinnerNow, " Responding...">>

\* C23 as stated: under every setting of the options, a tick that fires
\* while the status is Responding issues exactly one update, and it carries
\* the spinner and "Responding...", never the accumulated text.
C23_RespondingTickGeneric ==
    [][(TickStep /\ workflowStep.status = "responding") =>
           TickIssued(RespondingLabel)]_vars

\* C23 amended: every tick issues exactly one update.  While the status is
\* Responding it carries the spinner and "Responding..." in the direct
\* relay and, in the http relay, under the default options and whenever
\* the text is still empty.  With streamPartialText set and text
\* accumulated the http relay shows the spinner, the accumulated text and
\* "..."; with showWorkflowStatus cleared and no partial text to show it
\* shows the spinner and "Thinking...".
C23_RespondingTickLabel ==
    [][TickStep =>
           /\ Len(calls') = Len(calls) + 1
           /\ Last(calls').kind = "tick"
           /\ workflowStep.status = "responding" =>
                  IF impl = "http" /\ opts.streamPartialText /\ accumulatedText # <<>>
                  THEN TickIssued(<<SpinnerNow, " ">> \o accumulatedText \o <<"...">>)
                  ELSE IF impl = "http" /\ ~opts.showWorkflowStatus
                  THEN TickIssued(<<SpinnerNow, " Thinking...">>)
                  ELSE TickIssued(RespondingLabel)]_vars

\* http relay with streamPartialText: a tick showed the text gathered so far
C23_Witness ==
    /\ impl = "http"
    /\ opts.streamPartialText
    /\ opts.showWorkflowStatus
    /\ \E i \in 1..Len(calls) :
           /\ calls[i].kind = "tick"
           /\ calls[i].text = <<At(LOADING_EMOJIS, 1), " ", "Hel", "lo w", "...">>

\* the glyph a tick's update starts with is the one the table holds at the
\* counter's value modulo the table's length
GlyphInBounds ==
    LET glyph == Last(calls').text[1]
    IN  IF workflowStep.status = "tool_call" /\ (impl = "direct" \/ opts.showWorkflowStatus)
        THEN glyph = WORKFLOW_EMOJIS[(loadingIndex' % Len(WORKFLOW_EMOJIS)) + 1]
        ELSE glyph = LOADING_EMOJIS[(loadingIndex' % Len(LOADING_EMOJIS)) + 1]

\* C24 as stated: the frame counter is changed only by ticks, grows by one
\* at every tick, and every glyph is looked up at the counter modulo the
\* length of its table.
C24_FrameCounterMonotonic ==
    [][/\ loadingIndex' # loadingIndex => TickStep
       /\ TickStep => /\ loadingIndex' = loadingIndex + 1
                      /\ GlyphInBounds]_vars

\* C24 amended: the frame counter is changed only by ticks, once per tick,
\* and every glyph is looked up within its table, at the counter modulo the
\* table's length.  The direct relay's counter grows by one at every tick.
\* The http relay stores the counter reduced modulo the length of the
\* spinner table: it grows by one and goes from 9 back to 0, and the tool
\* icon is looked up at that stored value modulo 4.
C24_FrameCounterWithinTables ==
    [][/\ loadingIndex' # loadingIndex => TickStep
       /\ TickStep =>
              /\ IF impl = "direct" THEN loadingIndex' = loadingIndex + 1
                 ELSE /\ loadingIndex' \in 0..(Len(LOADING_EMOJIS) - 1)
                      /\ loadingIndex' = IF loadingIndex = Len(LOADING_EMOJIS) - 1
                                         THEN 0 ELSE loadingIndex + 1
              /\ GlyphInBounds]_vars

\* http relay: the stored counter wrapped while a tool call was displayed
C24_Witness ==
    /\ impl = "http"
    /\ ticks > Len(LOADING_EMOJIS)
    /\ loadingIndex = ticks - Len(LOADING_EMOJIS)
    /\ \E i \in 1..Len(calls) :
           /\ calls[i].kind = "tick"
           /\ calls[i].text[1] = WORKFLOW_EMOJIS[1]
           /\ \E j \in 1..(i-1) : calls[j].text[1] = WORKFLOW_EMOJIS[2]

\* the descriptions registered by the lines before the latest tool call
\* started, and the name the resolution order gave that tool call
DescsAtLastStart == Replay(SubSeq(lineLog, 1, LastToolStart - 1)).descs
NameAtLastStart ==
    IF MapHas(toolIdMap, LastRef) THEN TitleCased(toolIdMap[LastRef])
    ELSE IF impl = "direct" THEN TitleCased(LastRef)
    ELSE IF MapHas(DescsAtLastStart, LastRef) THEN DescsAtLastStart[LastRef]
    ELSE LastRef
ToolCallLabel(name) ==
    <<WORKFLOW_EMOJIS[(loadingIndex' % Len(WORKFLOW_EMOJIS)) + 1],
      IF impl = "http" THEN " Calling tool: " ELSE " Using ">> \o name \o <<"...">>

\* C25: a tick never renders a torn state: whenever a tick fires while the
\* status is ToolCall, the update it issues shows the name resolved for the
\* latest tool-call-start, not an absent name and not an earlier tool's.
C25_TickRendersLatestTool ==
    [][(TickStep /\ workflowStep.status = "tool_call"
          /\ (impl = "direct" \/ opts.showWorkflowStatus)) =>
           /\ ToolStarts # {}
           /\ workflowStep.toolName # Undefined
           /\ TickIssued(ToolCallLabel(NameAtLastStart))]_vars

\* one tick showed the first tool call, a later one the second
C25_Witness ==
    /\ Len(lineLog) >= 2
    /\ IsToolStart(lineLog[1]) /\ IsToolStart(lineLog[2])
    /\ \E i, j \in 1..Len(calls) :
           /\ i < j
           /\ calls[i].kind = "tick" /\ calls[j].kind = "tick"
           /\ SubSeq(calls[i].text, 3, Len(calls[i].text) - 1)
                  = ResolvedName(RefOf(lineLog[1]))
           /\ SubSeq(calls[j].text, 3, Len(calls[j].text) - 1)
                  = ResolvedName(RefOf(lineLog[2]))
           /\ calls[i].text[2] = calls[j].text[2]
    /\ ResolvedName(RefOf(lineLog[1])) # ResolvedName(RefOf(lineLog[2]))

\* the step in which the tool lookup is answered
FetchStep == pc = "start" /\ pc' # "start"

\* C26: the tool lookup runs once per invocation and is over before the
\* message is created, before the animation starts and before anything is
\* read; afterwards the map it returned is never modified.
C26_FetchOnceBeforeEverything ==
    [][/\ FetchStep =>
              /\ calls = <<>>
              /\ messageTs = NoTs
              /\ animationInterval = "unset"
              /\ ticks = 0
              /\ lineLog = <<>> /\ wire = input
       /\ pc # "start" => pc' # "start" /\ toolIdMap' = toolIdMap
       /\ toolIdMap' # toolIdMap => FetchStep]_vars

\* the pre-fetched map was used by a tool call and is unchanged at the end
C26_Witness ==
    /\ toolIdMap # EmptyMap
    /\ pc = "returned"
    /\ ToolStarts # {}
    /\ MapHas(toolIdMap, LastRef)
    /\ ticks > 0

HandledTypes ==
    {"text-delta", "text", "content", "tool-call", "tool_call_start",
     "tool-call-start", "tool-call-end", "tool-result"}

\* a line without the marker, or a frame of valid JSON whose type is none
\* of the text, tool-call-start and tool-call-end types (direct: an onChunk
\* callback of another type)
IsUnhandled(line) ==
    IF impl = "direct"
    THEN line.s = "onChunk" /\ line.o.type \notin {"tool-call", "tool-result"}
    ELSE \/ ~startsWith(line, Marker)
         \/ /\ JSONparse(sliceMarker(line)).ok
            /\ JSONparse(sliceMarker(line)).v.type \notin HandledTypes

\* C27: a frame of an unhandled type and a line without the marker change
\* neither the status, the text nor the tool name, and do not stop the
\* read loop: the line is processed like every other complete line, the
\* relay keeps reading and is not put on the error path by it.
C27_UnhandledLineIgnored ==
    /\ (lineLog # <<>> /\ IsUnhandled(Last(lineLog))) =>
           LET before == Replay(Front(lineLog))
           IN  /\ workflowStep = before.step
               /\ accumulatedText = before.acc
               /\ NonTerminalHist = before.hist
    /\ (impl = "http" /\ pc \notin {"start", "post"}) =>
           /\ lineLog = CompleteLines(Consumed)
           /\ error \in {NoError} \cup SinkOrTransportFailures
    /\ (pc = "read" /\ error = NoError) => TerminalCalls = {}

\* a blank line and a comment line were read during a tool call, which was
\* still displayed, and the text delta after them was applied
C27_Witness ==
    /\ impl = "http"
    /\ input = HttpBlankLines
    /\ pc = "returned"
    /\ Len(lineLog) = 4
    /\ lineLog[2] = <<>>
    /\ IsUnhandled(lineLog[2]) /\ IsUnhandled(lineLog[3])
    /\ Replay(SubSeq(lineLog, 1, 3)).step.status = "tool_call"
    /\ accumulatedText = <<"a">>

\* the first non-empty value among payload.text, text and content
FirstNonEmpty(e) ==
    IF e.ptext # <<>> THEN e.ptext
    ELSE IF e.text # <<>> THEN e.text
    ELSE e.content

\* C28: the text a text event appends is the first non-empty value among
\* payload.text, text and content, in that order; the other fields, also
\* when present and non-empty, are not appended (http relay).
C28_FirstTextFieldWins ==
    (impl = "http" /\ LastIsTextDelta) =>
        LET e == EventOf(Last(lineLog))
        IN  /\ accumulatedText = Replay(Front(lineLog)).acc \o FirstNonEmpty(e)
            /\ Len(accumulatedText) <= Len(lineLog)

\* three text events: content alone, text over content, payload.text over both
C28_Witness ==
    /\ impl = "http"
    /\ input = HttpFields
    /\ pc = "returned"
    /\ accumulatedText = <<"c1", "t2", "p3">>
    /\ sinkText = accumulatedText

\* the step-start lines among the first n - 1 lines that register a
\* description for ref, and the description the latest of them gives
Registrations(ref, n) ==
    {k \in 1..(n - 1) :
        /\ EventOf(lineLog[k]).type = "step-start"
        /\ \E t \in 1..Len(EventOf(lineLog[k]).tools) :
               /\ EventOf(lineLog[k]).tools[t].name = ref
               /\ EventOf(lineLog[k]).tools[t].name # <<>>
               /\ EventOf(lineLog[k]).tools[t].description # <<>>}
DescriptionBefore(ref, n) ==
    LET k == CHOOSE i \in Registrations(ref, n) :
                 \A j \in Registrations(ref, n) : j <= i
        tools == EventOf(lineLog[k]).tools
        t == CHOOSE i \in 1..Len(tools) :
                 /\ tools[i].name = ref /\ tools[i].description # <<>>
                 /\ \A j \in 1..Len(tools) :
                        (tools[j].name = ref /\ tools[j].description # <<>>)
                            => j <= i
    IN  tools[t].description

\* C29: while a tool call is displayed (http relay), the active tool name
\* is the stream-registered description exactly when a step-start processed
\* before that tool-call-start registered one for the reference and no
\* pre-fetched id exists for it; a description registered after the
\* tool-call-start leaves the name as it was set.
C29_DescriptionOnlyIfRegisteredBefore ==
    (impl = "http" /\ workflowStep.status = "tool_call") =>
        /\ ToolStarts # {}
        /\ IF MapHas(toolIdMap, LastRef)
           THEN workflowStep.toolName = TitleCased(toolIdMap[LastRef])
           ELSE IF Registrations(LastRef, LastToolStart) # {}
           THEN workflowStep.toolName = DescriptionBefore(LastRef, LastToolStart)
           ELSE workflowStep.toolName = LastRef

\* the description arrived after the tool call started: the raw reference
\* stays on display although a description is now registered for it
C29_Witness ==
    /\ impl = "http"
    /\ Len(lineLog) = 2
    /\ IsToolStart(lineLog[1])
    /\ EventOf(lineLog[2]).type = "step-start"
    /\ ~MapHas(toolIdMap, LastRef)
    /\ MapHas(toolDescriptions, LastRef)
    /\ workflowStep = [status |-> "tool_call", toolName |-> LastRef]
    /\ toolDescriptions[LastRef] # LastRef
    /\ \E i \in 1..Len(calls) :
           /\ calls[i].kind = "tick"
           /\ SubSeq(calls[i].text, 3, Len(calls[i].text) - 1) = LastRef

\* the failures between the creation of the message and the first read
PreChunkFailures == ConnectErrors \cup {"Agent not found"}

\* C30: a failure after the initial message was created and before any
\* chunk is read (the stream request rejected or answered non-OK, no body,
\* agent not found) takes the path of a transport failure: the animator is
\* stopped and issues nothing more, exactly one terminal update is issued,
\* the error notice addressed to the created message, and the caller gets
\* that failure.
C30_PreChunkFailureHandled ==
    error \in PreChunkFailures =>
        /\ messageTs # NoTs
        /\ lineLog = <<>> /\ accumulatedText = <<>>
        /\ animationInterval = Cleared
        /\ pc \in {"errUpdate", "raised"}
        /\ Cardinality(ErrorCalls) = 1
        /\ TerminalCalls = ErrorCalls
        /\ \A i \in ErrorCalls :
               /\ calls[i].ts = messageTs
               /\ calls[i].text = ErrorText(impl, error, <<>>)
               /\ \A j \in (i + 1)..Len(calls) : calls[j].kind # "tick"
        /\ outcome \in {"pending", error}
        /\ pc = "raised" => outcome = error

\* the stream endpoint answered non-OK after the animator had ticked; the
\* message shows the error notice and the caller got the failure
C30_Witness ==
    /\ impl = "http"
    /\ error = "Failed to stream"
    /\ ticks > 0
    /\ pc = "raised"
    /\ outcome = error
    /\ sinkText = HttpErrorText
    /\ animationInterval = Cleared

\* the relay awaits the transport and the timer is set
Streaming == pc \in {"connect", "read"} /\ animationInterval = "on"

\* the tick updates that show a tool call
ToolCallTicks ==
    {i \in 1..Len(calls) :
        /\ calls[i].kind = "tick"
        /\ Len(calls[i].text) >= 2
        /\ calls[i].text[2] \in {" Calling tool: ", " Using "}}

\* C31: nothing but the transport ends the relay: the read loop is left
\* only when the transport reports its end or fails, and until then the
\* timer callback can always run again (up to the bound of the model),
\* however many callbacks have run; after a tool-call-start that nothing
\* follows, every callback renders the tool-call status.
C31_NoTimeout ==
    /\ [][(pc = "read" /\ pc' # "read") =>
              \/ wire = <<>> /\ pc' = "final" /\ error' = NoError
              \/ error' \in TransportErrors]_vars
    /\ [][(TickStep /\ pc = "read" /\ LastIsToolStart) =>
              TickIssued(ToolCallLabel(NameAtLastStart))]_vars
    /\ [](Streaming => error = NoError /\ outcome = "pending" /\ TerminalCalls = {})
    /\ []((Streaming /\ inflight = {} /\ ticks < MaxFrames) => ENABLED AnimTick)

\* the stream stalled after a tool-call-start: the callbacks ran up to the
\* bound, past the wrap of the spinner, each showing the tool call
C31_Witness ==
    /\ pc = "read"
    /\ wire # <<>>
    /\ Len(lineLog) = 1 /\ LastIsToolStart
    /\ workflowStep.status = "tool_call"
    /\ ticks = MaxFrames
    /\ Cardinality(ToolCallTicks) > Len(LOADING_EMOJIS)
    /\ TerminalCalls = {}

(***************************************************************************)
(* Two invocations at the same time                                        *)
(***************************************************************************)
\* The second invocation is the same function entered a second time: its
\* locals are held in the record peer, its steps apply the same operators
\* to that record.  It is reduced to what it holds and what it sends.
OwnVars == <<impl, opts, input, wire, buffer, pc, messageTs, accumulatedText,
             workflowStep, loadingIndex, animationInterval, toolIdMap,
             toolDescriptions, error, calls, inflight, sinkText, ticks,
             lineLog, statusHist, outcome>>

\* Slack gives every message of a channel its own ts
PeerHandle == "ts2"

\* what the transport delivers to the second invocation
PeerBody ==
    Concat(<<DataLine(StepStart(ReverseTextId, Desc0)),
             DataLine(ToolCallStart(ReverseTextId)),
             DataLine(TextDelta(<<"z">>))>>)
PeerInput(i) ==
    IF i = "http" THEN SubSeq(splitLines(PeerBody), 1, Len(splitLines(PeerBody)) - 1)
    ELSE <<OnChunk(ToolCallStart(ReverseTextId)), TextChunk(<<"z">>)>>

PeerRelay(p) ==
    [acc |-> p.acc, step |-> p.step, descs |-> p.descs, hist |-> p.hist,
     log |-> p.log]

\* streamToSlack is entered again: locals declared, the tool lookup
\* answered (for an agent without tools), the initial chat.postMessage issued
PeerStart ==
    /\ peer.pc = "absent"
    /\ \E i \in {"http", "direct"}, resp \in {[ok |-> TRUE, tools |-> <<>>]} :
           peer' = [NoPeer EXCEPT
                       !.pc = "post", !.impl = i, !.wire = PeerInput(i),
                       !.idMap = IF i = "http" THEN fetchAgentTools(resp)
                                 ELSE buildToolMap(resp),
                       !.calls = <<Call("create", NoTs,
                                        IF i = "http"
                                        THEN <<At(LOADING_EMOJIS, 0), " Thinking...">>
                                        ELSE getStatusText(Thinking, 0))>>]
    /\ UNCHANGED OwnVars
    /\ UNCHANGED <<storage, hook>>

\* its chat.postMessage is answered; setInterval; the stream is requested
PeerCreated ==
    /\ peer.pc = "post"
    /\ peer' = [peer EXCEPT !.pc = "read", !.ts = PeerHandle]
    /\ UNCHANGED OwnVars
    /\ UNCHANGED <<storage, hook>>

\* variant: the description map is one object shared by all invocations
PeerReadShared ==
    /\ peer.pc = "read"
    /\ peer.wire # <<>>
    /\ LET r == IF peer.impl = "http"
                THEN ProcessLineHttp(PeerRelay(peer), Head(peer.wire), peer.idMap)
                ELSE ProcessChunkDirect(PeerRelay(peer), Head(peer.wire), peer.idMap)
       IN  /\ peer' = [peer EXCEPT !.wire = Tail(@), !.acc = r.acc, !.step = r.step,
                                   !.descs = r.descs, !.hist = r.hist, !.log = r.log]
           /\ toolDescriptions' = r.descs
    /\ UNCHANGED <<impl, opts, input, wire, buffer, pc, messageTs, accumulatedText,
                   workflowStep, loadingIndex, animationInterval, toolIdMap,
                   error, calls, inflight, sinkText, ticks, lineLog, statusHist,
                   outcome>>
    /\ UNCHANGED <<storage, hook>>

\* it reads one line (http) or receives one chunk (direct)
PeerRead ==
    /\ peer.pc = "read"
    /\ peer.wire # <<>>
    /\ LET r == IF peer.impl = "http"
                THEN ProcessLineHttp(PeerRelay(peer), Head(peer.wire), peer.idMap)
                ELSE ProcessChunkDirect(PeerRelay(peer), Head(peer.wire), peer.idMap)
       IN  peer' = [peer EXCEPT !.wire = Tail(@), !.acc = r.acc, !.step = r.step,
                               !.descs = r.descs, !.hist = r.hist, !.log = r.log]
    /\ UNCHANGED OwnVars
    /\ UNCHANGED <<storage, hook>>

\* its setInterval callback
PeerTick ==
    /\ peer.pc = "read"
    /\ peer.ticks < MaxPairTicks
    /\ LET frame == NextFrame(peer.impl, peer.frame)
           text == IF peer.impl = "http"
                   THEN displayTextHttp(DefaultOptions, peer.step, peer.acc, frame)
                   ELSE getStatusText(peer.step, frame)
       IN  peer' = [peer EXCEPT !.frame = frame, !.ticks = @ + 1,
                               !.calls = Append(@, Call("tick", peer.ts, text))]
    /\ UNCHANGED OwnVars
    /\ UNCHANGED <<storage, hook>>

\* its stream ends: clearInterval, the final chat.update, return
PeerEnd ==
    /\ peer.pc = "read"
    /\ peer.wire = <<>>
    /\ peer' = [peer EXCEPT !.pc = "returned",
                            !.calls = Append(@, Call("final", peer.ts,
                                                     FinalText(peer.acc)))]
    /\ UNCHANGED OwnVars
    /\ UNCHANGED <<storage, hook>>

\* its transport fails: clearInterval, the error chat.update, throw
PeerFail ==
    /\ peer.pc = "read"
    /\ \E e \in TransportErrors :
           peer' = [peer EXCEPT !.pc = "raised",
                               !.calls = Append(@, Call("error", peer.ts,
                                             ErrorText(peer.impl, e, peer.acc)))]
    /\ UNCHANGED OwnVars
    /\ UNCHANGED <<storage, hook>>

\* each update of the first invocation is answered before its next callback
PairTick == inflight = {} /\ TickWithin(MaxPairTicks)

\* the first invocation receives a tool call and a text; the second is
\* started by another Slack event at any moment
PairInit ==
    /\ Init
    /\ opts = DefaultOptions
    /\ input \in {Concat(<<DataLine(ToolCallStart(ReverseTextId)),
                           DataLine(TextDelta(<<"a">>))>>),
                  <<OnChunk(ToolCallStart(ReverseTextId)), TextChunk(<<"a">>)>>}

PairNext ==
    \/ FetchTools
    \/ PostInitialOk
    \/ PostInitialFail
    \/ ConnectOk
    \/ ConnectFail
    \/ Read
    \/ StreamEnd
    \/ StreamFail
    \/ PairTick
    \/ TickAnswered
    \/ FinalAnswered
    \/ ErrorAnswered
    \/ PeerStart
    \/ PeerCreated
    \/ PeerRead
    \/ PeerTick
    \/ PeerEnd
    \/ PeerFail

PairSpec == PairInit /\ [][PairNext]_vars

\* the state the second invocation's own events produce
RECURSIVE PeerReplay(_)
PeerReplay(lines) ==
    IF lines = <<>> THEN InitialRelay
    ELSE IF peer.impl = "http"
    THEN ProcessLineHttp(PeerReplay(Front(lines)), Last(lines), peer.idMap)
    ELSE ProcessChunkDirect(PeerReplay(Front(lines)), Last(lines), peer.idMap)

\* C32: two invocations at the same time share nothing: a step of one
\* leaves every local of the other as it was; the status, text, tool name
\* and descriptions of each are those its own events produce, and the final
\* text of the first is that of its own stream; the two handles differ and
\* every update of an invocation is addressed to its own handle.
C32_InvocationsIsolated ==
    /\ [][(peer' # peer) => UNCHANGED OwnVars]_vars
    /\ [][(OwnVars' # OwnVars) => peer' = peer]_vars
    /\ [](/\ workflowStep = Replay(lineLog).step
          /\ accumulatedText = Replay(lineLog).acc
          /\ toolDescriptions = Replay(lineLog).descs
          /\ pc = "returned" =>
                 \A i \in FinalCalls : calls[i].text = FinalText(InputText))
    /\ [](peer.pc # "absent" =>
             /\ PeerRelay(peer) = PeerReplay(peer.log)
             /\ peer.log \o peer.wire = PeerInput(peer.impl))
    /\ []((messageTs # NoTs /\ peer.ts # NoTs) => messageTs # peer.ts)
    /\ [](/\ \A i \in 1..Len(calls) :
                 calls[i].kind # "create" => calls[i].ts = messageTs
          /\ \A i \in 1..Len(peer.calls) :
                 peer.calls[i].kind # "create" => peer.calls[i].ts = peer.ts)

\* both invocations are in the middle of a tool call of the same reference,
\* each has ticked; the second registered a description, the first has none
C32_Witness ==
    /\ pc = "read" /\ peer.pc = "read"
    /\ workflowStep.status = "tool_call" /\ peer.step.status = "tool_call"
    /\ ticks > 0 /\ peer.ticks > 0
    /\ MapHas(peer.descs, ReverseTextId)
    /\ ~MapHas(toolDescriptions, ReverseTextId)
    /\ workflowStep.toolName # peer.step.toolName
    /\ messageTs # peer.ts

\* what follows the last newline of the body
TrailingPartial == Last(splitLines(input))

\* C33: when the transport reports the end of the stream, what the buffer
\* still holds (a last frame without its newline) is not decoded: the lines
\* processed are the newline-terminated ones, the buffer keeps the partial
\* line, and the final update carries the text of the terminated lines only.
C33_TrailingPartialDiscarded ==
    (impl = "http" /\ FinalCalls # {}) =>
        /\ wire = <<>>
        /\ lineLog = CompleteLines(input)
        /\ buffer = TrailingPartial
        /\ accumulatedText = InputText
        /\ \A i \in FinalCalls : calls[i].text = FinalText(InputText)

\* the body ended with a text frame that lacks its newline: the relay
\* returned, the frame is still in the buffer, its text was never shown
C33_Witness ==
    /\ impl = "http"
    /\ input = HttpUnterminated
    /\ pc = "returned"
    /\ buffer # <<>> /\ startsWith(buffer, Marker)
    /\ JSONparse(sliceMarker(buffer)).ok
    /\ JSONparse(sliceMarker(buffer)).v.ptext = <<"b">>
    /\ Len(lineLog) = 1
    /\ sinkText = <<"a">>

ErrorPosts == {i \in 1..Len(calls) : calls[i].kind = "errorPost"}

\* C34: when the initial chat.postMessage fails there is no handle, the
\* timer is never set and never runs, and no chat.update is ever issued;
\* the http relay sends nothing more, the direct relay posts the error text
\* once as a new message, whose failure is ignored; the caller gets the
\* failure of the create call.
C34_CreateFailure ==
    error = "post failed" =>
        /\ messageTs = NoTs
        /\ animationInterval # "on" /\ ticks = 0
        /\ lineLog = <<>>
        /\ \A i \in 1..Len(calls) : calls[i].kind \notin UpdateKinds
        /\ sinkText = <<>>
        /\ IF impl = "http"
           THEN calls = <<Call("create", NoTs, InitialText)>>
           ELSE calls = <<Call("create", NoTs, InitialText),
                          Call("errorPost", NoTs, <<"X Error: ", error>>)>>
        /\ outcome \in {"pending", error}
        /\ pc = "raised" => outcome = error /\ inflight = {}
        /\ pc \in {"errUpdate", "raised"}

\* direct relay: the create call failed, the error was posted as a new
\* message, that post was answered and the caller got the failure
C34_Witness ==
    /\ impl = "direct"
    /\ error = "post failed"
    /\ pc = "raised"
    /\ outcome = "post failed"
    /\ Cardinality(ErrorPosts) = 1
    /\ messageTs = NoTs

\* the changes of the status between two consecutive states of the relay
StatusMoves ==
    {<<"thinking", "tool_call">>, <<"thinking", "responding">>,
     <<"tool_call", "tool_call">>, <<"tool_call", "responding">>,
     <<"responding", "responding">>, <<"responding", "tool_call">>}

StatusMoved ==
    (<<workflowStep.status, workflowStep'.status>>)
        \in (StatusMoves \cup {<<"thinking", "thinking">>})

\* C35: Thinking is the initial status only: the status starts as Thinking,
\* and once it is ToolCall or Responding no step makes it Thinking again;
\* every step takes the status along one of the six moves (or leaves it
\* Thinking), and the recorded history has Thinking in first place only.
C35_ThinkingOnlyInitial ==
    /\ [][StatusMoved]_vars
    /\ [][(workflowStep.status # "thinking") =>
              (workflowStep'.status # "thinking")]_vars
    /\ [](/\ statusHist[1] = "thinking"
          /\ \A i \in 2..Len(statusHist) : statusHist[i] # "thinking"
          /\ lineLog = <<>> => workflowStep.status = "thinking")

\* Thinking, Responding, ToolCall, Responding, whatever lines lay between
C35_Witness ==
    /\ NonTerminalHist = <<"thinking", "responding", "tool_call", "responding">>
    /\ \E i \in 1..Len(lineLog) : IsUnhandled(lineLog[i])
    /\ workflowStep.status = "responding"
    /\ pc = "read"

(***************************************************************************)
(* Storage                                                                 *)
(***************************************************************************)
InstallationIds == {"i1", "i2"}
AppRecordIds == {"a1", "a2"}
TeamIds == {"T1", "T2"}
BotTokens == {"xoxb-1", "xoxb-2"}
SigningSecrets == {"s1", "s2"}

SlackInstallations ==
    [id : InstallationIds, slackAppId : {"a1"}, teamId : TeamIds,
     botToken : BotTokens]
SlackApps == [id : AppRecordIds, signingSecret : SigningSecrets]

\* what Map.get returns for a missing key
NoInstallation ==
    [id |-> "undefined", slackAppId |-> "undefined", teamId |-> "undefined",
     botToken |-> "undefined"]
NoApp == [id |-> "undefined", signingSecret |-> "undefined"]

\* Map.set(rec.id, rec): an existing key keeps its place, a new one is last
MapPut(m, rec) ==
    IF \E i \in 1..Len(m) : m[i].id = rec.id
    THEN [i \in 1..Len(m) |-> IF m[i].id = rec.id THEN rec ELSE m[i]]
    ELSE Append(m, rec)

\* Map.get(id)
MapGet(m, id, none) ==
    IF \E i \in 1..Len(m) : m[i].id = id
    THEN m[CHOOSE i \in 1..Len(m) : m[i].id = id]
    ELSE none

\* saveToFile: apps and installations written in Map order; a failed write
\* is logged and leaves the file as it was
saveToFile(st, ok) ==
    IF ok
    THEN [st EXCEPT !.saves = @ + 1,
                    !.file = [apps |-> st.apps,
                              installations |-> st.installations,
                              exists |-> TRUE]]
    ELSE [st EXCEPT !.saves = @ + 1]

\* saveInstallation(installation)
saveInstallation(st, installation, ok) ==
    saveToFile(
        [st EXCEPT !.installations = MapPut(@, installation),
                   !.byTeam = MapSet(@, installation.teamId, installation),
                   !.lastSaved = MapSet(@, installation.teamId, installation)],
        ok)

\* saveApp(app)
saveApp(st, app, ok) ==
    saveToFile([st EXCEPT !.apps = MapPut(@, app)], ok)

getInstallation(st, id) == MapGet(st.installations, id, NoInstallation)
getApp(st, id) == MapGet(st.apps, id, NoApp)
getInstallationByTeamId(st, teamId) ==
    IF MapHas(st.byTeam, teamId) THEN st.byTeam[teamId] ELSE NoInstallation

\* installations.forEach: set by id, set by team, in the order of the file
RECURSIVE IndexByTeam(_, _)
IndexByTeam(index, list) ==
    IF list = <<>> THEN index
    ELSE IndexByTeam(MapSet(index, Head(list).teamId, Head(list)), Tail(list))

\* new Storage(): empty maps, then loadFromFile when the file exists
loadFromFile(st) ==
    IF st.file.exists
    THEN [st EXCEPT !.apps = st.file.apps,
                    !.installations = st.file.installations,
                    !.byTeam = IndexByTeam(EmptyMap, st.file.installations)]
    ELSE [st EXCEPT !.apps = <<>>, !.installations = <<>>, !.byTeam = EmptyMap]

RelayVars == <<impl, opts, input, wire, buffer, pc, messageTs, accumulatedText,
               workflowStep, loadingIndex, animationInterval, toolIdMap,
               toolDescriptions, error, calls, inflight, sinkText, ticks,
               lineLog, statusHist, outcome, peer>>

SaveInstallation ==
    /\ storage.saves < MaxSaves
    /\ \E installation \in SlackInstallations, ok \in BOOLEAN :
           storage' = saveInstallation(storage, installation, ok)
    /\ UNCHANGED <<RelayVars, hook>>

SaveApp ==
    /\ storage.saves < MaxSaves
    /\ \E app \in SlackApps, ok \in BOOLEAN :
           storage' = saveApp(storage, app, ok)
    /\ UNCHANGED <<RelayVars, hook>>

\* the process is started again: the module is evaluated, new Storage()
Reload ==
    /\ storage' = loadFromFile(storage)
    /\ UNCHANGED <<RelayVars, hook>>

StorageInit == Init /\ opts = DefaultOptions /\ input = <<>>

StorageNext ==
    \/ SaveInstallation
    \/ SaveApp
    \/ Reload

StorageSpec == StorageInit /\ [][StorageNext]_vars

\* C37: after any sequence of saveInstallation and saveApp calls, the
\* record getInstallationByTeamId(t) returns is the one stored under its id,
\* has teamId t and is the installation most recently saved for team t, and
\* a Storage reloaded from the file answers both lookups with that record.
C37_TeamLookupConsistent ==
    \A t \in TeamIds :
        LET r == getInstallationByTeamId(storage, t)
        IN  r # NoInstallation =>
                /\ r = getInstallation(storage, r.id)
                /\ r.teamId = t
                /\ MapHas(storage.lastSaved, t) /\ r = storage.lastSaved[t]
                /\ getInstallationByTeamId(loadFromFile(storage), t) = r
                /\ getInstallation(loadFromFile(storage), r.id) = r

(***************************************************************************)
(* Webhook route                                                           *)
(***************************************************************************)
\* A request: the body parses or not and has a type, the signature header
\* is absent, of another length than a v0 signature, or the v0 signature
\* of this body and timestamp under some secret; the timestamp header is
\* absent, within five minutes or older.
Requests ==
    [type : {"invalid_json", "url_verification", "event_callback"},
     signature : {"none", "short"} \cup SigningSecrets,
     timestamp : {"none", "fresh", "stale"},
     team_id : {"none"} \cup TeamIds,
     event : {"none", "bot", "app_mention"}]

\* verifySlackRequest: false outside the five-minute window; timingSafeEqual
\* throws on buffers of different length, else compares
verifySlackRequest(signingSecret, slackSignature, timestamp) ==
    IF timestamp = "stale" THEN "false"
    ELSE IF slackSignature = "short" THEN "throws"
    ELSE IF slackSignature = signingSecret THEN "true"
    ELSE "false"

\* POST: the status of the response, whether the signature was checked,
\* whether sendToAgent was called
POST(st, req) ==
    LET answer(status, verified, agent) ==
            [status |-> status, verified |-> verified, agent |-> agent]
        installation == getInstallationByTeamId(st, req.team_id)
        app == IF installation # NoInstallation
               THEN getApp(st, installation.slackAppId) ELSE NoApp
        isValid == verifySlackRequest(app.signingSecret, req.signature,
                                      req.timestamp)
    IN  IF req.type = "invalid_json" THEN answer(500, FALSE, FALSE)
        ELSE IF req.type = "url_verification" THEN answer(200, FALSE, FALSE)
        ELSE IF req.signature = "none" \/ req.timestamp = "none"
        THEN answer(401, FALSE, FALSE)
        ELSE IF req.team_id = "none" THEN answer(400, FALSE, FALSE)
        ELSE IF installation = NoInstallation \/ app = NoApp
        THEN answer(404, FALSE, FALSE)
        ELSE IF isValid = "throws" THEN answer(500, TRUE, FALSE)
        ELSE IF isValid = "false" THEN answer(401, TRUE, FALSE)
        ELSE IF req.event = "app_mention" THEN answer(200, TRUE, TRUE)
        ELSE answer(200, TRUE, FALSE)

\* a request arrives and is answered
Post ==
    /\ hook.n < MaxRequests
    /\ \E req \in Requests :
           LET a == POST(storage, req)
           IN  hook' = [n |-> hook.n + 1, request |-> req, status |-> a.status,
                        verified |-> a.verified, agent |-> a.agent]
    /\ UNCHANGED <<RelayVars, storage>>

\* the OAuth callback: saveApp and saveInstallation under fresh random ids
\* (the route reads the maps in memory only: the writes are taken to succeed)
Install ==
    /\ storage.saves < MaxSaves
    /\ \E a \in AppRecordIds, i \in InstallationIds, t \in TeamIds,
          secret \in SigningSecrets, ok1 \in {TRUE}, ok2 \in {TRUE} :
           /\ getApp(storage, a) = NoApp
           /\ getInstallation(storage, i) = NoInstallation
           /\ storage' = saveInstallation(
                             saveApp(storage, [id |-> a, signingSecret |-> secret],
                                     ok1),
                             [id |-> i, slackAppId |-> a, teamId |-> t,
                              botToken |-> "xoxb-1"],
                             ok2)
    /\ UNCHANGED <<RelayVars, hook>>

HookInit == Init /\ opts = DefaultOptions /\ input = <<>>

HookNext ==
    \/ Install
    \/ Post

HookSpec == HookInit /\ [][HookNext]_vars

\* the app whose signing secret covers a team, looked up in the stored data
AppsOfTeam(t) ==
    {a \in 1..Len(storage.apps) :
        \E i \in 1..Len(storage.installations) :
            /\ storage.installations[i].teamId = t
            /\ storage.installations[i].slackAppId = storage.apps[a].id}

Authentic(req) ==
    /\ req.signature \notin {"none", "short"}
    /\ req.timestamp = "fresh"
    /\ req.team_id \in TeamIds
    /\ \E a \in AppsOfTeam(req.team_id) :
           storage.apps[a].signingSecret = req.signature

\* C36: the agent is called for a request only if it carried both signature
\* headers and a team id, an installation and app exist for that team and
\* the signature verifies under that app's signing secret; a request that
\* fails one of these checks is answered 401, 400 or 404 and the agent is
\* not called; only the URL-verification challenge is answered 200 without
\* the signature having been checked.
C36_AgentOnlyAfterVerification ==
    [][(hook'.n # hook.n) =>
          LET req == hook'.request
          IN  /\ hook'.agent => Authentic(req)
              /\ (req.type = "event_callback" /\ ~Authentic(req)) =>
                     hook'.status \in {401, 400, 404} /\ ~hook'.agent
              /\ (hook'.status = 200 /\ ~hook'.verified) =>
                     req.type = "url_verification"]_vars

====
